---- MODULE Spec2Model ----
(***************************************************************************)
(* A model of the chess game of this repository: the rules engine          *)
(* (ChessPiece, PieceFactory, MoveValidator), the board (ChessBoard), the   *)
(* game state machine (ChessGame) and the AI's move selection (ChessAI),    *)
(* together with the timers and promises through which they call each       *)
(* other.                                                                   *)
(***************************************************************************)
EXTENDS Integers, Sequences, FiniteSets, TLC

(***************************************************************************)
(* Pieces and squares                                                       *)
(***************************************************************************)

Rows == 0..7
Cols == 0..7
Squares == Rows \X Cols

\* the value of an empty square (null in the source)
Null == [type |-> "none", color |-> "none", row |-> 0, col |-> 0,
         hasMoved |-> FALSE, moveCount |-> 0]

\* new ChessPiece(type, color, row, col)
ChessPiece(type, color, row, col) ==
    [type |-> type, color |-> color, row |-> row, col |-> col,
     hasMoved |-> FALSE, moveCount |-> 0]

isValidSquare(row, col) == row >= 0 /\ row < 8 /\ col >= 0 /\ col < 8

getOppositeColor(color) == IF color = "white" THEN "black" ELSE "white"

\* PieceFactory.createFromNotation: 'wK' -> white king, ...
typeMap(letter) ==
    CASE letter = "K" -> "king"
      [] letter = "Q" -> "queen"
      [] letter = "R" -> "rook"
      [] letter = "B" -> "bishop"
      [] letter = "N" -> "knight"
      [] letter = "P" -> "pawn"

createFromNotation(notation, row, col) ==
    ChessPiece(typeMap(notation[2]),
               IF notation[1] = "w" THEN "white" ELSE "black", row, col)

initialSetup ==
    << << <<"b","R">>, <<"b","N">>, <<"b","B">>, <<"b","Q">>,
          <<"b","K">>, <<"b","B">>, <<"b","N">>, <<"b","R">> >>,
       [c \in 1..8 |-> <<"b","P">>],
       [c \in 1..8 |-> <<>>],
       [c \in 1..8 |-> <<>>],
       [c \in 1..8 |-> <<>>],
       [c \in 1..8 |-> <<>>],
       [c \in 1..8 |-> <<"w","P">>],
       << <<"w","R">>, <<"w","N">>, <<"w","B">>, <<"w","Q">>,
          <<"w","K">>, <<"w","B">>, <<"w","N">>, <<"w","R">> >> >>

createInitialBoard ==
    [row \in Rows |-> [col \in Cols |->
        IF initialSetup[row + 1][col + 1] # <<>>
        THEN createFromNotation(initialSetup[row + 1][col + 1], row, col)
        ELSE Null]]

\* ChessPiece.moveTo
moveTo(piece, newRow, newCol) ==
    [piece EXCEPT !.row = newRow, !.col = newCol, !.hasMoved = TRUE,
                  !.moveCount = piece.moveCount + 1]

(***************************************************************************)
(* Move generator (pseudo-legal moves)                                      *)
(***************************************************************************)

\* the squares reached by walking from the piece along (rowDir, colDir) until
\* the edge, an own piece (excluded) or an enemy piece (included)
slide(piece, board, rowDir, colDir) ==
    { <<piece.row + rowDir * i, piece.col + colDir * i>> : i \in
        { i \in 1..7 :
            /\ isValidSquare(piece.row + rowDir * i, piece.col + colDir * i)
            /\ \A j \in 1..(i - 1) :
                 board[piece.row + rowDir * j][piece.col + colDir * j] = Null
            /\ board[piece.row + rowDir * i][piece.col + colDir * i].color
                 # piece.color } }

\* the in-bounds targets at the given offsets not occupied by an own piece
step(piece, board, offsets) ==
    { <<piece.row + o[1], piece.col + o[2]>> : o \in
        { o \in offsets :
            /\ isValidSquare(piece.row + o[1], piece.col + o[2])
            /\ board[piece.row + o[1]][piece.col + o[2]].color # piece.color } }

\* getPawnMoves without the double move from the starting row
getPawnMovesSingleStep(piece, board) ==
    LET direction == IF piece.color = "white" THEN 0 - 1 ELSE 1
        newRow    == piece.row + direction
    IN (IF isValidSquare(newRow, piece.col) /\ board[newRow][piece.col] = Null
        THEN {<<newRow, piece.col>>} ELSE {})
       \cup { <<newRow, piece.col + o>> : o \in
                { o \in {0 - 1, 1} :
                    /\ isValidSquare(newRow, piece.col + o)
                    /\ board[newRow][piece.col + o] # Null
                    /\ board[newRow][piece.col + o].color # piece.color } }

getPawnMoves(piece, board) ==
    LET direction == IF piece.color = "white" THEN 0 - 1 ELSE 1
        startRow  == IF piece.color = "white" THEN 6 ELSE 1
        newRow    == piece.row + direction
        doubleRow == newRow + direction
        forward   ==
            IF isValidSquare(newRow, piece.col) /\ board[newRow][piece.col] = Null
            THEN {<<newRow, piece.col>>} \cup
                 (IF /\ piece.row = startRow
                     /\ isValidSquare(doubleRow, piece.col)
                     /\ board[doubleRow][piece.col] = Null
                  THEN {<<doubleRow, piece.col>>} ELSE {})
            ELSE {}
        captures  ==
            { <<newRow, piece.col + colOffset>> : colOffset \in
                { o \in {0 - 1, 1} :
                    /\ isValidSquare(newRow, piece.col + o)
                    /\ board[newRow][piece.col + o] # Null
                    /\ board[newRow][piece.col + o].color # piece.color } }
    IN forward \cup captures

getRookMoves(piece, board) ==
    UNION { slide(piece, board, d[1], d[2]) :
            d \in {<<0, 1>>, <<0, 0 - 1>>, <<1, 0>>, <<0 - 1, 0>>} }

knightMoves ==
    { <<0 - 2, 0 - 1>>, <<0 - 2, 1>>, <<0 - 1, 0 - 2>>, <<0 - 1, 2>>,
      <<1, 0 - 2>>, <<1, 2>>, <<2, 0 - 1>>, <<2, 1>> }

getKnightMoves(piece, board) == step(piece, board, knightMoves)

getBishopMoves(piece, board) ==
    UNION { slide(piece, board, d[1], d[2]) :
            d \in {<<1, 1>>, <<1, 0 - 1>>, <<0 - 1, 1>>, <<0 - 1, 0 - 1>>} }

getQueenMoves(piece, board) ==
    getRookMoves(piece, board) \cup getBishopMoves(piece, board)

getCastlingMoves(piece, board) ==
    LET backRank == IF piece.color = "white" THEN 7 ELSE 0
        kingsideRook  == board[backRank][7]
        queensideRook == board[backRank][0]
    IN IF piece.row # backRank \/ piece.col # 4 THEN {}
       ELSE (IF /\ kingsideRook # Null /\ kingsideRook.type = "rook"
                /\ kingsideRook.color = piece.color /\ ~kingsideRook.hasMoved
                /\ board[backRank][5] = Null /\ board[backRank][6] = Null
             THEN {<<backRank, 6>>} ELSE {})
            \cup
            (IF /\ queensideRook # Null /\ queensideRook.type = "rook"
                /\ queensideRook.color = piece.color /\ ~queensideRook.hasMoved
                /\ board[backRank][1] = Null /\ board[backRank][2] = Null
                /\ board[backRank][3] = Null
             THEN {<<backRank, 2>>} ELSE {})

kingDirections ==
    { <<0 - 1, 0 - 1>>, <<0 - 1, 0>>, <<0 - 1, 1>>, <<0, 0 - 1>>,
      <<0, 1>>, <<1, 0 - 1>>, <<1, 0>>, <<1, 1>> }

getKingMoves(piece, board) ==
    step(piece, board, kingDirections) \cup
    (IF ~piece.hasMoved THEN getCastlingMoves(piece, board) ELSE {})

getValidMoves(piece, board) ==
    CASE piece.type = "pawn"   -> getPawnMoves(piece, board)
      [] piece.type = "rook"   -> getRookMoves(piece, board)
      [] piece.type = "knight" -> getKnightMoves(piece, board)
      [] piece.type = "bishop" -> getBishopMoves(piece, board)
      [] piece.type = "queen"  -> getQueenMoves(piece, board)
      [] piece.type = "king"   -> getKingMoves(piece, board)
      [] OTHER -> {}

(***************************************************************************)
(* Legality filter (MoveValidator)                                          *)
(***************************************************************************)

\* the first square, in row-major scan order, of a set of squares
firstSquare(S) == CHOOSE s \in S : \A t \in S : s[1] * 8 + s[2] <= t[1] * 8 + t[2]

findKing(board, color) ==
    LET kings == { s \in Squares : /\ board[s[1]][s[2]].type = "king"
                                   /\ board[s[1]][s[2]].color = color }
    IN IF kings = {} THEN Null
       ELSE board[firstSquare(kings)[1]][firstSquare(kings)[2]]

isKingInCheck(board, color) ==
    LET king == findKing(board, color)
        oppositeColor == getOppositeColor(color)
    IN IF king = Null THEN FALSE
       ELSE \E s \in Squares :
              /\ board[s[1]][s[2]] # Null
              /\ board[s[1]][s[2]].color = oppositeColor
              /\ <<king.row, king.col>> \in getValidMoves(board[s[1]][s[2]], board)

absDiff(a, b) == IF a >= b THEN a - b ELSE b - a

\* MoveValidator.simulateMove: the move on a copy of the board; row and col of
\* the moved clones are set, hasMoved and moveCount are not
simulateMove(board, fromRow, fromCol, toRow, toCol) ==
    LET piece == board[fromRow][fromCol]
    IN IF piece = Null THEN board
       ELSE IF piece.type = "king" /\ absDiff(toCol, fromCol) = 2
       THEN LET isKingside == toCol = 6
                rookFromCol == IF isKingside THEN 7 ELSE 0
                rookToCol == IF isKingside THEN 5 ELSE 3
                rook == board[fromRow][rookFromCol]
                b1 == [[board EXCEPT ![toRow][toCol] =
                                        [piece EXCEPT !.row = toRow, !.col = toCol]]
                              EXCEPT ![fromRow][fromCol] = Null]
            IN IF rook # Null
               THEN [[b1 EXCEPT ![fromRow][rookToCol] =
                                    [rook EXCEPT !.row = fromRow, !.col = rookToCol]]
                           EXCEPT ![fromRow][rookFromCol] = Null]
               ELSE b1
       ELSE [[board EXCEPT ![toRow][toCol] =
                               [piece EXCEPT !.row = toRow, !.col = toCol]]
                      EXCEPT ![fromRow][fromCol] = Null]

\* isCastlingValid testing only that the king is not in check where it stands
isCastlingValidNoTransit(king, toRow, toCol, board) ==
    ~isKingInCheck(board, king.color)

isCastlingValid(king, toRow, toCol, board) ==
    LET isKingside == toCol = 6
        isQueenside == toCol = 2
        testCols == IF isKingside THEN {5, 6}
                    ELSE IF isQueenside THEN {3, 2} ELSE {}
    IN /\ ~isKingInCheck(board, king.color)
       /\ \A testCol \in testCols :
            ~isKingInCheck(simulateMove(board, king.row, king.col, king.row, testCol),
                           king.color)

\* isValidMove without the test of the mover's king on the simulated board
isValidMoveNoCheckTest(piece, toRow, toCol, board) ==
    /\ isValidSquare(toRow, toCol)
    /\ ~(board[toRow][toCol] # Null /\ board[toRow][toCol].color = piece.color)
    /\ <<toRow, toCol>> \in getValidMoves(piece, board)
    /\ (piece.type = "king" /\ absDiff(toCol, piece.col) = 2)
          => isCastlingValid(piece, toRow, toCol, board)

isValidMove(piece, toRow, toCol, board) ==
    /\ isValidSquare(toRow, toCol)
    /\ ~(board[toRow][toCol] # Null /\ board[toRow][toCol].color = piece.color)
    /\ <<toRow, toCol>> \in getValidMoves(piece, board)
    /\ IF piece.type = "king" /\ absDiff(toCol, piece.col) = 2
       THEN isCastlingValid(piece, toRow, toCol, board)
       ELSE ~isKingInCheck(simulateMove(board, piece.row, piece.col, toRow, toCol),
                           piece.color)

\* the loop without its call of isValidMove: a move that leaves the king in
\* check counts
hasValidMoveUnfiltered(board, color) ==
    \E s \in Squares :
      /\ board[s[1]][s[2]] # Null
      /\ board[s[1]][s[2]].color = color
      /\ getValidMoves(board[s[1]][s[2]], board) # {}

\* the loop shared by isCheckmate and isStalemate: some piece of the color has
\* a pseudo-legal move that isValidMove accepts
hasValidMove(board, color) ==
    \E s \in Squares :
      /\ board[s[1]][s[2]] # Null
      /\ board[s[1]][s[2]].color = color
      /\ \E m \in getValidMoves(board[s[1]][s[2]], board) :
           isValidMove(board[s[1]][s[2]], m[1], m[2], board)

isCheckmate(board, color) ==
    IF ~isKingInCheck(board, color) THEN FALSE ELSE ~hasValidMove(board, color)

\* isStalemate without its test that the king is not in check
isStalemateNoCheckTest(board, color) == ~hasValidMove(board, color)

isStalemate(board, color) ==
    IF isKingInCheck(board, color) THEN FALSE ELSE ~hasValidMove(board, color)

(***************************************************************************)
(* Board operations (ChessBoard)                                            *)
(***************************************************************************)

\* no square, no move: null
NoSquare == <<>>

\* the absent castling field of a move
NoCastling == [type |-> "none", rookFrom |-> <<0, 0>>, rookTo |-> <<0, 0>>]

\* board.lastMove = null
NoMove == [from |-> <<0, 0>>, to |-> <<0, 0>>, piece |-> Null,
           capturedPiece |-> Null, promotion |-> "none",
           castling |-> NoCastling, id |-> 0]

isPawnPromotion(board, fromRow, fromCol, toRow, toCol) ==
    LET piece == board[fromRow][fromCol]
    IN IF piece = Null \/ piece.type # "pawn" THEN FALSE
       ELSE \/ (piece.color = "white" /\ toRow = 0)
            \/ (piece.color = "black" /\ toRow = 7)

isCastling(board, fromRow, fromCol, toRow, toCol) ==
    LET piece == board[fromRow][fromCol]
    IN piece # Null /\ piece.type = "king" /\ absDiff(toCol, fromCol) = 2

\* ChessBoard.executeCastling: the board with king and rook moved
castledBoard(board, fromRow, fromCol, toRow, toCol) ==
    LET king == board[fromRow][fromCol]
        isKingside == toCol = 6
        rookFromCol == IF isKingside THEN 7 ELSE 0
        rookToCol == IF isKingside THEN 5 ELSE 3
        rook == board[fromRow][rookFromCol]
        b1 == [[board EXCEPT ![toRow][toCol] = moveTo(king, toRow, toCol)]
                      EXCEPT ![fromRow][fromCol] = Null]
    IN [[b1 EXCEPT ![fromRow][rookToCol] = moveTo(rook, fromRow, rookToCol)]
               EXCEPT ![fromRow][rookFromCol] = Null]

\* ChessBoard.executeCastling: the move it leaves in lastMove
castlingMove(board, fromRow, fromCol, toRow, toCol) ==
    LET isKingside == toCol = 6
        rookFromCol == IF isKingside THEN 7 ELSE 0
        rookToCol == IF isKingside THEN 5 ELSE 3
    IN [from |-> <<fromRow, fromCol>>, to |-> <<toRow, toCol>>,
        piece |-> moveTo(board[fromRow][fromCol], toRow, toCol),
        capturedPiece |-> Null, promotion |-> "none",
        castling |-> [type |-> IF isKingside THEN "kingside" ELSE "queenside",
                      rookFrom |-> <<fromRow, rookFromCol>>,
                      rookTo |-> <<fromRow, rookToCol>>],
        id |-> 0]

\* makeMove, normal move: board[to] = piece; board[from] = null; piece.moveTo
movedBoard(board, fromRow, fromCol, toRow, toCol) ==
    [[board EXCEPT ![toRow][toCol] = moveTo(board[fromRow][fromCol], toRow, toCol)]
            EXCEPT ![fromRow][fromCol] = Null]

promotionLetter(pieceType) ==
    CASE pieceType = "queen" -> "Q"
      [] pieceType = "rook" -> "R"
      [] pieceType = "bishop" -> "B"
      [] pieceType = "knight" -> "N"

\* ChessBoard.promotePawn: a new piece of the chosen type on the square
promotePawn(board, row, col, pieceType, color) ==
    [board EXCEPT ![row][col] =
        createFromNotation(<<IF color = "white" THEN "w" ELSE "b",
                             promotionLetter(pieceType)>>, row, col)]

(***************************************************************************)
(* State                                                                    *)
(***************************************************************************)

VARIABLES
    board,           \* ChessBoard.board
    lastMove,        \* ChessBoard.lastMove
    currentPlayer,   \* ChessGame.currentPlayer
    gameState,       \* ChessGame.gameState (the status)
    moveHistory,     \* ChessGame.moveHistory
    capturedPieces,  \* ChessGame.capturedPieces
    gameMode,        \* ChessGame.gameMode: 'local', 'easy', 'medium', 'hard'
    thinking,        \* ChessAI.thinking
    pending,         \* the timers and promises not yet run, in scheduling order
    script,          \* the game the user of this session plays (an input)
    moveSeq,         \* the number of moves the board has accepted (history variable)
    undos,           \* the number of undo requests so far (bounded by MaxUndo)
    games,           \* the number of new-game requests so far (bounded by MaxNewGames)
    ev,              \* the operation that led to this state (history variable)
    prior,           \* the position before the latest accepted move (history variable)
    aiCall,          \* the latest return of ChessAI.getBestMove (history variable)
    node,            \* the call of ChessAI.minimax looked at (the games leave it alone)
    heap,            \* the board arrays and piece objects the legality queries and
                     \* the search work on, by reference (the games leave it alone)
    server,          \* the room server: its rooms, its players, its connections
    client,          \* the online manager of a browser: its connection state
    clock,           \* ChessGame's clock: isTimerActive, timerInterval, the start timeout
    wire             \* one browser and the room server, with the messages between them

vars == <<board, lastMove, currentPlayer, gameState, moveHistory, capturedPieces,
          gameMode, thinking, pending, script, moveSeq, undos, games, ev, prior, aiCall,
          node, heap, server, client, clock, wire>>

\* the variables of a game at one board
gameVars == <<board, lastMove, currentPlayer, gameState, moveHistory, capturedPieces,
              gameMode, thinking, pending, script, moveSeq, undos, games, ev, prior,
              aiCall, clock>>

\* the mutable part of the program state, as one value the operations transform
Game ==
    [board |-> board, lastMove |-> lastMove, currentPlayer |-> currentPlayer,
     gameState |-> gameState, moveHistory |-> moveHistory, aiCall |-> aiCall,
     capturedPieces |-> capturedPieces, thinking |-> thinking,
     pending |-> pending, moveSeq |-> moveSeq, clock |-> clock]

\* this.ai is set for the three bot modes; the bot always plays black
hasAI == gameMode \in {"easy", "medium", "hard"}
aiColor == "black"

(***************************************************************************)
(* Timers and promises                                                      *)
(***************************************************************************)

CastlingDelay == 600
RenderDelay == 300
CaptureRenderDelay == 600
AIMoveDelay == 200
EasyThinkingTime == 500
MediumThinkingTime == 1500
HardThinkingTime == 3000

getThinkingTime ==
    CASE gameMode = "easy" -> EasyThinkingTime
      [] gameMode = "medium" -> MediumThinkingTime
      [] gameMode = "hard" -> HardThinkingTime
      [] OTHER -> EasyThinkingTime

\* a scheduled callback: kind, its delay in ms, whether it then waits for the
\* user (the promotion dialog), and what the callback closes over
\* a scheduled callback; game is the number of the game it was scheduled in
\* (history field)
Task(kind, delay, user, from, to, color, snapshot) ==
    [kind |-> kind, delay |-> delay, user |-> user, from |-> from, to |-> to,
     color |-> color, snapshot |-> snapshot, game |-> games]

NoBoard == [row \in Rows |-> [col \in Cols |-> Null]]

DispatchTask(delay) == Task("dispatch", delay, FALSE, <<0, 0>>, <<0, 0>>, "none", NoBoard)
PromotionTask(delay, to, color) == Task("promotion", delay, TRUE, <<0, 0>>, to, color, NoBoard)
ThinkTask(delay, snapshot) == Task("think", delay, FALSE, <<0, 0>>, <<0, 0>>, "none", snapshot)
\* the move of the bot waiting to be made; it belongs to the game its search
\* was started in
ApplyTask(from, to, game) ==
    [Task("apply", AIMoveDelay, FALSE, from, to, "none", NoBoard) EXCEPT !.game = game]

\* a callback scheduled later runs before an earlier one only if its delay is
\* shorter; a dialog stays open as long as the user likes
canFire(q, i) == \A j \in 1..(i - 1) : q[j].user \/ q[j].delay > q[i].delay

removeAt(q, i) == SubSeq(q, 1, i - 1) \o SubSeq(q, i + 1, Len(q))

(***************************************************************************)
(* Game state machine (ChessGame)                                           *)
(***************************************************************************)

\* the game open for moves only while the status is playing
isOpenPlayingOnly(status) == status = "playing"

\* the status lets moves be made: playing or check
isOpen(status) == status = "playing" \/ status = "check"

\* the clock after the constructor and startGame: not active, no interval, and the
\* timeout that will start it armed; counted is the color the latest interval
\* callback counted time for
Clock == [isTimerActive |-> FALSE, timerInterval |-> FALSE, starting |-> 1,
          counted |-> "none"]

startTimer(c) == [c EXCEPT !.isTimerActive = TRUE, !.timerInterval = TRUE,
                           !.counted = "none"]

stopTimer(c) == [c EXCEPT !.timerInterval = FALSE, !.counted = "none"]

\* the clock is stopped, the turn passes, and the clock is started again only when
\* the status is 'playing' at this point
switchPlayer(g) ==
    LET stopped == IF g.clock.isTimerActive THEN stopTimer(g.clock) ELSE g.clock
    IN [g EXCEPT !.currentPlayer = getOppositeColor(g.currentPlayer),
                 !.clock = IF stopped.isTimerActive /\ g.gameState = "playing"
                           THEN startTimer(stopped) ELSE stopped]

isInsufficientMaterial(b) ==
    LET pieces == { s \in Squares : b[s[1]][s[2]] # Null }
    IN IF Cardinality(pieces) = 2 THEN TRUE
       ELSE IF Cardinality(pieces) = 3
       THEN \E s \in pieces : b[s[1]][s[2]].type \in {"bishop", "knight"}
       ELSE FALSE

\* endGame sets the status to the reason it is given
endGame(g, reason) ==
    [g EXCEPT !.gameState = reason,
              !.clock = [stopTimer(@) EXCEPT !.isTimerActive = FALSE]]

checkGameState(g) ==
    IF isKingInCheck(g.board, g.currentPlayer)
    THEN IF isCheckmate(g.board, g.currentPlayer)
         THEN endGame([g EXCEPT !.gameState = "checkmate"], "checkmate")
         ELSE IF isInsufficientMaterial(g.board)
              THEN endGame([g EXCEPT !.gameState = "draw"], "insufficient_material")
              ELSE [g EXCEPT !.gameState = "check"]
    ELSE IF isStalemate(g.board, g.currentPlayer)
         THEN endGame([g EXCEPT !.gameState = "stalemate"], "stalemate")
         ELSE IF isInsufficientMaterial(g.board)
              THEN endGame([g EXCEPT !.gameState = "draw"], "insufficient_material")
              ELSE [g EXCEPT !.gameState = "playing"]

\* what a call of getBestMove was given and what it returned (move is NoSquare
\* for null), and how: "busy" at once because a search was pending, "random"
\* by getRandomMove, "search" by a completed minimax, "fallback" by
\* getRandomMove after the search threw, "error" when the exception got out
AICall(given, move, how) == [given |-> given, move |-> move, how |-> how]

NoCall == [how |-> "none"]

\* makeAIMove up to the first await of getBestMove: snapshot the board, set
\* thinking, start the thinking delay (getBestMove returns null at once when a
\* search is already pending)
makeAIMove(g) ==
    IF ~hasAI \/ ~isOpen(g.gameState) THEN g
    ELSE IF g.thinking THEN [g EXCEPT !.aiCall = AICall(g.board, NoSquare, "busy")]
    ELSE [g EXCEPT !.thinking = TRUE,
                   !.pending = Append(@, ThinkTask(getThinkingTime, g.board))]

\* ChessUtils.coordsToNotation: the file letter and the rank digit
Files == <<"a", "b", "c", "d", "e", "f", "g", "h">>
Ranks == <<"8", "7", "6", "5", "4", "3", "2", "1">>
coordsToNotation(row, col) == <<Files[col + 1], Ranks[row + 1]>>

\* type.charAt(0).toUpperCase()
firstLetter(type) ==
    CASE type = "pawn" -> "P"
      [] type = "rook" -> "R"
      [] type = "knight" -> "K"
      [] type = "bishop" -> "B"
      [] type = "queen" -> "Q"
      [] type = "king" -> "K"

\* moveToAlgebraicNotation: the notation as the sequence of its characters
moveToAlgebraicNotation(move) ==
    LET piece == move.piece
        fromSquare == coordsToNotation(move.from[1], move.from[2])
        toSquare == coordsToNotation(move.to[1], move.to[2])
    IN IF move.castling # NoCastling
       THEN IF move.castling.type = "kingside" THEN <<"O", "-", "O">>
            ELSE <<"O", "-", "O", "-", "O">>
       ELSE (IF piece.type # "pawn" THEN <<firstLetter(piece.type)>> ELSE <<>>)
            \o (IF move.capturedPiece # Null
                THEN (IF piece.type = "pawn" THEN <<fromSquare[1]>> ELSE <<>>) \o <<"x">>
                ELSE <<>>)
            \o toSquare
            \o (IF move.promotion # "none" THEN <<"=", firstLetter(move.promotion)>>
                ELSE <<>>)

\* addMoveToHistory: the move, its notation, its player and the status at
\* recording time
historyEntry(move, status) ==
    [from |-> move.from, to |-> move.to, piece |-> move.piece,
     notation |-> moveToAlgebraicNotation(move),
     capturedPiece |-> move.capturedPiece, promotion |-> move.promotion,
     castling |-> move.castling, id |-> move.id,
     player |-> move.piece.color, gameState |-> status]

\* the 'chessmove' listener, run by dispatchMoveEvent with board.lastMove;
\* with lastMove null it throws before changing anything
handleMove(g) ==
    IF g.lastMove = NoMove THEN g
    ELSE LET move == g.lastMove
             g1 == [g EXCEPT !.moveHistory = Append(@, historyEntry(move, g.gameState))]
             g2 == IF move.capturedPiece # Null
                   THEN [g1 EXCEPT !.capturedPieces[move.capturedPiece.color] =
                                       Append(@, move.capturedPiece)]
                   ELSE g1
             g3 == checkGameState(switchPlayer(g2))
         IN IF hasAI /\ g3.currentPlayer = aiColor /\ isOpen(g3.gameState)
            THEN makeAIMove(g3)
            ELSE g3

isValidTurn(g, piece) ==
    IF hasAI /\ piece.color = aiColor THEN FALSE
    ELSE piece.color = g.currentPlayer /\ isOpen(g.gameState)

\* why ChessBoard.makeMove returns false, or "none" when it goes on to move
rejection(g, fromRow, fromCol, toRow, toCol, isAIMove) ==
    LET piece == g.board[fromRow][fromCol]
    IN IF piece = Null THEN "nopiece"
       ELSE IF ~isOpen(g.gameState) THEN "gameover"
       ELSE IF ~isAIMove /\ ~isValidTurn(g, piece) THEN "turn"
       ELSE IF ~isValidMove(piece, toRow, toCol, g.board) THEN "invalid"
       ELSE "none"

\* ChessBoard.makeMove past its checks
acceptedMove(g, fromRow, fromCol, toRow, toCol, isAIMove) ==
    LET piece == g.board[fromRow][fromCol]
        capturedPiece == g.board[toRow][toCol]
        id == g.moveSeq + 1
        renderDelay == IF capturedPiece # Null THEN CaptureRenderDelay ELSE RenderDelay
    IN IF isCastling(g.board, fromRow, fromCol, toRow, toCol)
       THEN [g EXCEPT !.board = castledBoard(g.board, fromRow, fromCol, toRow, toCol),
                      !.lastMove = [castlingMove(g.board, fromRow, fromCol, toRow, toCol)
                                       EXCEPT !.id = id],
                      !.moveSeq = id,
                      !.pending = Append(@, DispatchTask(CastlingDelay))]
       ELSE LET b1 == movedBoard(g.board, fromRow, fromCol, toRow, toCol)
                move == [from |-> <<fromRow, fromCol>>, to |-> <<toRow, toCol>>,
                         piece |-> b1[toRow][toCol], capturedPiece |-> capturedPiece,
                         promotion |-> "none", castling |-> NoCastling, id |-> id]
                g1 == [g EXCEPT !.board = b1, !.lastMove = move, !.moveSeq = id]
            IN IF isPawnPromotion(g.board, fromRow, fromCol, toRow, toCol)
               THEN IF isAIMove
                    THEN LET b2 == promotePawn(b1, toRow, toCol, "queen", piece.color)
                         IN [g1 EXCEPT !.board = b2,
                                       !.lastMove = [move EXCEPT !.promotion = "queen",
                                                                 !.piece = b2[toRow][toCol]],
                                       !.pending = Append(@, DispatchTask(renderDelay))]
                    ELSE [g1 EXCEPT !.pending =
                            Append(@, PromotionTask(renderDelay, <<toRow, toCol>>, piece.color))]
               ELSE handleMove(g1)

\* makeMove moving the piece before it asks isValidMove
makeMoveMovesFirst(g, fromRow, fromCol, toRow, toCol, isAIMove) ==
    LET why == rejection(g, fromRow, fromCol, toRow, toCol, isAIMove)
    IN IF why = "none" THEN acceptedMove(g, fromRow, fromCol, toRow, toCol, isAIMove)
       ELSE IF why = "invalid"
       THEN [g EXCEPT !.board = movedBoard(g.board, fromRow, fromCol, toRow, toCol)]
       ELSE g

makeMove(g, fromRow, fromCol, toRow, toCol, isAIMove) ==
    IF rejection(g, fromRow, fromCol, toRow, toCol, isAIMove) = "none"
    THEN acceptedMove(g, fromRow, fromCol, toRow, toCol, isAIMove)
    ELSE g

\* the promotion dialog's callback: promotePawn, then lastMove is completed
\* (a TypeError when lastMove is null) and the move event dispatched
promotionChosen(g, task, chosenPiece) ==
    LET b2 == promotePawn(g.board, task.to[1], task.to[2], chosenPiece, task.color)
    IN IF g.lastMove = NoMove THEN [g EXCEPT !.board = b2]
       ELSE handleMove([g EXCEPT !.board = b2,
                                 !.lastMove = [g.lastMove EXCEPT
                                                  !.promotion = chosenPiece,
                                                  !.piece = b2[task.to[1]][task.to[2]]]])

\* the index of the first captured piece of the given type, or 0
findIndex(list, type) ==
    IF \E i \in 1..Len(list) : list[i].type = type
    THEN CHOOSE i \in 1..Len(list) :
            list[i].type = type /\ \A j \in 1..(i - 1) : list[j].type # type
    ELSE 0

\* piece.moveTo(row, col); piece.hasMoved = piece.moveCount > 1; piece.moveCount--
movedBack(piece, row, col) ==
    LET p == moveTo(piece, row, col)
    IN [p EXCEPT !.hasMoved = p.moveCount > 1, !.moveCount = p.moveCount - 1]

undoLastMove(g) ==
    IF Len(g.moveHistory) = 0 THEN g
    ELSE LET move == g.moveHistory[Len(g.moveHistory)]
             g0 == [g EXCEPT !.moveHistory = SubSeq(@, 1, Len(@) - 1)]
             b == g.board
             from == move.from
             to == move.to
         IN LET g1 ==
              IF move.castling # NoCastling
              THEN LET rookFrom == move.castling.rookFrom
                       rookTo == move.castling.rookTo
                       king == b[to[1]][to[2]]
                       rook == b[rookTo[1]][rookTo[2]]
                       b1 == IF king # Null
                             THEN [[b EXCEPT ![from[1]][from[2]] =
                                                 movedBack(king, from[1], from[2])]
                                      EXCEPT ![to[1]][to[2]] = Null]
                             ELSE b
                       b2 == IF rook # Null
                             THEN [[b1 EXCEPT ![rookFrom[1]][rookFrom[2]] =
                                                  movedBack(rook, rookFrom[1], rookFrom[2])]
                                       EXCEPT ![rookTo[1]][rookTo[2]] = Null]
                             ELSE b1
                   IN [g0 EXCEPT !.board = b2]
              ELSE LET piece == b[to[1]][to[2]]
                       b1 == IF piece # Null
                             THEN [[b EXCEPT ![from[1]][from[2]] =
                                                 movedBack(piece, from[1], from[2])]
                                      EXCEPT ![to[1]][to[2]] = Null]
                             ELSE b
                   IN IF move.capturedPiece # Null
                      THEN LET list == g0.capturedPieces[move.capturedPiece.color]
                               index == findIndex(list, move.capturedPiece.type)
                           IN [g0 EXCEPT
                                 !.board = [b1 EXCEPT ![to[1]][to[2]] = move.capturedPiece],
                                 !.capturedPieces[move.capturedPiece.color] =
                                     IF index # 0 THEN removeAt(list, index) ELSE list]
                      ELSE [g0 EXCEPT !.board = b1]
            IN [switchPlayer(g1) EXCEPT !.gameState = "playing"]

\* startGame: everything of the game is reset; nothing scheduled is cancelled
\* and ai.thinking is left alone
startGame(g) ==
    [g EXCEPT !.currentPlayer = "white", !.gameState = "playing",
              !.moveHistory = <<>>,
              !.capturedPieces = [white |-> <<>>, black |-> <<>>],
              !.board = createInitialBoard, !.lastMove = NoMove,
              !.clock = [Clock EXCEPT !.starting = g.clock.starting + 1]]

(***************************************************************************)
(* The AI's move selection (ChessAI)                                        *)
(***************************************************************************)

getAllValidMoves(b, color) ==
    UNION { { <<s, m>> : m \in { m \in getValidMoves(b[s[1]][s[2]], b) :
                                   isValidMove(b[s[1]][s[2]], m[1], m[2], b) } } :
            s \in { s \in Squares : b[s[1]][s[2]] # Null /\ b[s[1]][s[2]].color = color } }

(***************************************************************************)
(* Inputs: the games the user plays                                         *)
(***************************************************************************)

\* e2e4 e7e5 f1c4 b8c6 d1h5 (f7f6, pinned) g8f6 h5f7#
ScholarScript ==
    << <<6, 4, 4, 4>>, <<1, 4, 3, 4>>, <<7, 5, 4, 2>>, <<0, 1, 2, 2>>, <<7, 3, 3, 7>>,
       <<1, 5, 2, 5>>, <<0, 6, 2, 5>>, <<3, 7, 1, 5>> >>

\* e2e4 e7e5 g1f3 b8c6 f1c4 g8f6 e1g1 c4f7 f7e8
CastleScript ==
    << <<6, 4, 4, 4>>, <<1, 4, 3, 4>>, <<7, 6, 5, 5>>, <<0, 1, 2, 2>>, <<7, 5, 4, 2>>,
       <<0, 6, 2, 5>>, <<7, 4, 7, 6>>, <<4, 2, 1, 5>>, <<1, 5, 0, 4>> >>

\* the game of CastleScript up to the capture of black's king, then
\* Qxe8 Nxe5 Nxe5 a4 Nxe4 h4 Nxf2 Kxf2 Qg6 Qe2 Qxg2+ Kxg2 h5 Qxh5 Rxh5 Rxf8
\* Rxh4 Rxc8 Rxc8 Ra3 Rxa4 Rxa4 g5 Rxa7 Nf3 Rxb7 Nxd2 Rxc7 Nxb1 Rxd7 Rxc2+ Kf3
\* Rxb2 Bxg5 Rb4 Bh4 Rxh4 Rd6 Rh8 Rd1 Rh3+ Kf4 Rb3 Rxb1 Rxb1: white is left
\* with its king and black with a rook
RegicideScript ==
    << <<6, 4, 4, 4>>, <<1, 4, 3, 4>>, <<7, 6, 5, 5>>, <<0, 1, 2, 2>>, <<7, 5, 4, 2>>,
       <<0, 6, 2, 5>>, <<7, 4, 7, 6>>, <<4, 2, 1, 5>>, <<1, 5, 0, 4>>, <<0, 3, 0, 4>>,
       <<5, 5, 3, 4>>, <<2, 2, 3, 4>>, <<6, 0, 4, 0>>, <<2, 5, 4, 4>>, <<6, 7, 4, 7>>,
       <<4, 4, 6, 5>>, <<7, 6, 6, 5>>, <<0, 4, 2, 6>>, <<7, 3, 6, 4>>, <<2, 6, 6, 6>>,
       <<6, 5, 6, 6>>, <<1, 7, 3, 7>>, <<6, 4, 3, 7>>, <<0, 7, 3, 7>>, <<7, 5, 0, 5>>,
       <<3, 7, 4, 7>>, <<0, 5, 0, 2>>, <<0, 0, 0, 2>>, <<7, 0, 5, 0>>, <<4, 7, 4, 0>>,
       <<5, 0, 4, 0>>, <<1, 6, 3, 6>>, <<4, 0, 1, 0>>, <<3, 4, 5, 5>>, <<1, 0, 1, 1>>,
       <<5, 5, 6, 3>>, <<1, 1, 1, 2>>, <<6, 3, 7, 1>>, <<1, 2, 1, 3>>, <<0, 2, 6, 2>>,
       <<6, 6, 5, 5>>, <<6, 2, 6, 1>>, <<7, 2, 3, 6>>, <<6, 1, 4, 1>>, <<3, 6, 4, 7>>,
       <<4, 1, 4, 7>>, <<1, 3, 2, 3>>, <<4, 7, 0, 7>>, <<2, 3, 7, 3>>, <<0, 7, 5, 7>>,
       <<5, 5, 4, 5>>, <<5, 7, 5, 1>>, <<7, 3, 7, 1>>, <<5, 1, 7, 1>> >>

\* a2a4 h7h5 a4a5 h5h4 a5a6 h4h3 a6b7 h3g2 b7a8, a1a2 tried by white before
\* its turn comes again, g2h1
PromotionScript ==
    << <<6, 0, 4, 0>>, <<1, 7, 3, 7>>, <<4, 0, 3, 0>>, <<3, 7, 4, 7>>, <<3, 0, 2, 0>>,
       <<4, 7, 5, 7>>, <<2, 0, 1, 1>>, <<5, 7, 6, 6>>, <<1, 1, 0, 0>>, <<7, 0, 6, 0>>,
       <<6, 6, 7, 7>> >>

\* e2e4 d7d5 e4d5 d8d5 d1h5 d5a2 h5h7 a2b2 h7g7 h8h2 a1a7 h2g2 a7b7 b2c2 b7c7
\* g2f2 g7g8 f2d2 g8f8 e8f8 c7e7 c2b1 e7f7 f8f7 g1h3 c8h3 e1d2 b1c1 d2c1 h3g2
\* f1g2 a8a1 c1b2 a1h1 g2h1 b8c6 b2a3 c6e7 a3a4 e7d5 h1d5: king and bishop
\* against king, the bishop giving check
TradeScript ==
    << <<6, 4, 4, 4>>, <<1, 3, 3, 3>>, <<4, 4, 3, 3>>, <<0, 3, 3, 3>>, <<7, 3, 3, 7>>,
       <<3, 3, 6, 0>>, <<3, 7, 1, 7>>, <<6, 0, 6, 1>>, <<1, 7, 1, 6>>, <<0, 7, 6, 7>>,
       <<7, 0, 1, 0>>, <<6, 7, 6, 6>>, <<1, 0, 1, 1>>, <<6, 1, 6, 2>>, <<1, 1, 1, 2>>,
       <<6, 6, 6, 5>>, <<1, 6, 0, 6>>, <<6, 5, 6, 3>>, <<0, 6, 0, 5>>, <<0, 4, 0, 5>>,
       <<1, 2, 1, 4>>, <<6, 2, 7, 1>>, <<1, 4, 1, 5>>, <<0, 5, 1, 5>>, <<7, 6, 5, 7>>,
       <<0, 2, 5, 7>>, <<7, 4, 6, 3>>, <<7, 1, 7, 2>>, <<6, 3, 7, 2>>, <<5, 7, 6, 6>>,
       <<7, 5, 6, 6>>, <<0, 0, 7, 0>>, <<7, 2, 6, 1>>, <<7, 0, 7, 7>>, <<6, 6, 7, 7>>,
       <<0, 1, 2, 2>>, <<6, 1, 5, 0>>, <<2, 2, 1, 4>>, <<5, 0, 4, 0>>, <<1, 4, 3, 3>>,
       <<7, 7, 3, 3>> >>

\* 1.e3 a5 2.Qh5 Ra6 3.Qxa5 h5 4.h4 Rah6 5.Qxc7 f6 6.Qxd7+ Kf7 7.Qxb7 Qd3
\* 8.Qxb8 Qh7 9.Qxc8 Kg6 10.Qe6: black is stalemated
StalemateScript ==
    << <<6, 4, 5, 4>>, <<1, 0, 3, 0>>, <<7, 3, 3, 7>>, <<0, 0, 2, 0>>, <<3, 7, 3, 0>>,
       <<1, 7, 3, 7>>, <<6, 7, 4, 7>>, <<2, 0, 2, 7>>, <<3, 0, 1, 2>>, <<1, 5, 2, 5>>,
       <<1, 2, 1, 3>>, <<0, 4, 1, 5>>, <<1, 3, 1, 1>>, <<0, 3, 5, 3>>, <<1, 1, 0, 1>>,
       <<5, 3, 1, 7>>, <<0, 1, 0, 2>>, <<1, 5, 2, 6>>, <<0, 2, 2, 4>> >>

\* 1.f3 e5 2.g4 Qh4: white is checkmated
FoolScript ==
    << <<6, 5, 5, 5>>, <<1, 4, 3, 4>>, <<6, 6, 4, 6>>, <<0, 3, 4, 7>> >>

\* 1.e4 a6 2.e5 d5, then the capture en passant e5xd6 is tried; 3.e6 fxe6
PassantScript ==
    << <<6, 4, 4, 4>>, <<1, 0, 2, 0>>, <<4, 4, 3, 4>>, <<1, 3, 3, 3>>, <<3, 4, 2, 3>>,
       <<3, 4, 2, 4>>, <<1, 5, 2, 4>> >>

\* 1.g3 b6 2.Bg2 Ba6 3.Nf3 e6 4.e4 Nf6, then 5.O-O is tried while the bishop
\* on a6 attacks f1; 5.d3 Be7 6.O-O O-O
CrossScript ==
    << <<6, 6, 5, 6>>, <<1, 1, 2, 1>>, <<7, 5, 6, 6>>, <<0, 2, 2, 0>>, <<7, 6, 5, 5>>,
       <<1, 4, 2, 4>>, <<6, 4, 4, 4>>, <<0, 6, 2, 5>>, <<7, 4, 7, 6>>, <<6, 3, 5, 3>>,
       <<0, 5, 1, 4>>, <<7, 4, 7, 6>>, <<0, 4, 0, 6>> >>

Script(name) ==
    CASE name = "scholar" -> ScholarScript
      [] name = "castle" -> CastleScript
      [] name = "promotion" -> PromotionScript
      [] name = "trade" -> TradeScript
      [] name = "stalemate" -> StalemateScript
      [] name = "fool" -> FoolScript
      [] name = "passant" -> PassantScript
      [] name = "cross" -> CrossScript
      [] name = "regicide" -> RegicideScript

\* the sessions explored: which game is played in which mode
Sessions ==
    ({"scholar", "promotion"} \X {"local", "easy"})
    \cup ({"castle"} \X {"local", "easy", "medium", "hard"})
    \cup ({"trade", "stalemate", "fool", "cross", "passant", "regicide"} \X {"local"})

\* the games in which the user also asks for undo, and for a new game
UndoScripts == {"scholar", "castle", "promotion"}
NewGameScripts == {"scholar"}

\* how far ahead of the recorded history the next attempted move is taken
Lookahead == 2
MaxUndo == 1
MaxNewGames == 1

\* the moves of the script the user (or the bot's random draw) may come up with
Window(name, history) ==
    { Script(name)[k] : k \in { k \in 1..Len(Script(name)) :
          k > Len(history) /\ k <= Len(history) + Lookahead } }

leastMove(S) ==
    CHOOSE m \in S : \A n \in S :
        ((m[1][1] * 8 + m[1][2]) * 64 + m[2][1] * 8 + m[2][2])
          <= ((n[1][1] * 8 + n[1][2]) * 64 + n[2][1] * 8 + n[2][2])

\* the outcomes of getRandomMove's draw that are explored: the valid moves of
\* the script when there are some, else one valid move; none when there is
\* no valid move (getRandomMove returns null)
getRandomMove(b, name, history) ==
    LET scripted == { mv \in Window(name, history) :
                        /\ b[mv[1]][mv[2]] # Null
                        /\ b[mv[1]][mv[2]].color = aiColor
                        /\ <<mv[3], mv[4]>> \in getValidMoves(b[mv[1]][mv[2]], b)
                        /\ isValidMove(b[mv[1]][mv[2]], mv[3], mv[4], b) }
    IN IF scripted # {}
       THEN { << <<mv[1], mv[2]>>, <<mv[3], mv[4]>> >> : mv \in scripted }
       ELSE LET validMoves == getAllValidMoves(b, aiColor)
            IN IF validMoves = {} THEN {} ELSE {leastMove(validMoves)}

PromotionChoices == {"queen", "rook", "bishop", "knight"}

\* ChessAI.makeMove: a copy of the board with the move made on it. The copies
\* of the pieces are plain objects, { ...piece }: their row and col follow the
\* move, and they have no methods
aiMakeMove(b, move) ==
    LET from == move[1]
        to == move[2]
        piece == b[from[1]][from[2]]
        placed(p, row, col) == IF p = Null THEN Null ELSE [p EXCEPT !.row = row, !.col = col]
    IN IF piece # Null /\ piece.type = "king" /\ absDiff(to[2], from[2]) = 2
       THEN LET rookFromCol == IF to[2] = 6 THEN 7 ELSE 0
                rookToCol == IF to[2] = 6 THEN 5 ELSE 3
                rook == b[from[1]][rookFromCol]
                b1 == [[b EXCEPT ![to[1]][to[2]] = placed(piece, to[1], to[2])]
                          EXCEPT ![from[1]][from[2]] = Null]
            IN IF rook # Null
               THEN [[b1 EXCEPT ![from[1]][rookToCol] = placed(rook, from[1], rookToCol)]
                         EXCEPT ![from[1]][rookFromCol] = Null]
               ELSE b1
       ELSE [[b EXCEPT ![to[1]][to[2]] = placed(piece, to[1], to[2])]
                EXCEPT ![from[1]][from[2]] = Null]

pieceValues(type) ==
    CASE type = "pawn" -> 100
      [] type = "knight" -> 320
      [] type = "bishop" -> 330
      [] type = "rook" -> 500
      [] type = "queen" -> 900
      [] type = "king" -> 20000

\* positionTables: one 8 x 8 table for each type of piece
positionTables(type) ==
    CASE type = "pawn" ->
        << <<0, 0, 0, 0, 0, 0, 0, 0>>,
           <<50, 50, 50, 50, 50, 50, 50, 50>>,
           <<10, 10, 20, 30, 30, 20, 10, 10>>,
           <<5, 5, 10, 25, 25, 10, 5, 5>>,
           <<0, 0, 0, 20, 20, 0, 0, 0>>,
           <<5, -5, -10, 0, 0, -10, -5, 5>>,
           <<5, 10, 10, -20, -20, 10, 10, 5>>,
           <<0, 0, 0, 0, 0, 0, 0, 0>> >>
      [] type = "knight" ->
        << <<-50, -40, -30, -30, -30, -30, -40, -50>>,
           <<-40, -20, 0, 0, 0, 0, -20, -40>>,
           <<-30, 0, 10, 15, 15, 10, 0, -30>>,
           <<-30, 5, 15, 20, 20, 15, 5, -30>>,
           <<-30, 0, 15, 20, 20, 15, 0, -30>>,
           <<-30, 5, 10, 15, 15, 10, 5, -30>>,
           <<-40, -20, 0, 5, 5, 0, -20, -40>>,
           <<-50, -40, -30, -30, -30, -30, -40, -50>> >>
      [] type = "bishop" ->
        << <<-20, -10, -10, -10, -10, -10, -10, -20>>,
           <<-10, 0, 0, 0, 0, 0, 0, -10>>,
           <<-10, 0, 5, 10, 10, 5, 0, -10>>,
           <<-10, 5, 5, 10, 10, 5, 5, -10>>,
           <<-10, 0, 10, 10, 10, 10, 0, -10>>,
           <<-10, 10, 10, 10, 10, 10, 10, -10>>,
           <<-10, 5, 0, 0, 0, 0, 5, -10>>,
           <<-20, -10, -10, -10, -10, -10, -10, -20>> >>
      [] type = "rook" ->
        << <<0, 0, 0, 0, 0, 0, 0, 0>>,
           <<5, 10, 10, 10, 10, 10, 10, 5>>,
           <<-5, 0, 0, 0, 0, 0, 0, -5>>,
           <<-5, 0, 0, 0, 0, 0, 0, -5>>,
           <<-5, 0, 0, 0, 0, 0, 0, -5>>,
           <<-5, 0, 0, 0, 0, 0, 0, -5>>,
           <<-5, 0, 0, 0, 0, 0, 0, -5>>,
           <<0, 0, 0, 5, 5, 0, 0, 0>> >>
      [] type = "queen" ->
        << <<-20, -10, -10, -5, -5, -10, -10, -20>>,
           <<-10, 0, 0, 0, 0, 0, 0, -10>>,
           <<-10, 0, 5, 5, 5, 5, 0, -10>>,
           <<-5, 0, 5, 5, 5, 5, 0, -5>>,
           <<0, 0, 5, 5, 5, 5, 0, -5>>,
           <<-10, 5, 5, 5, 5, 5, 0, -10>>,
           <<-10, 0, 5, 0, 0, 0, 0, -10>>,
           <<-20, -10, -10, -5, -5, -10, -10, -20>> >>
      [] type = "king" ->
        << <<-30, -40, -40, -50, -50, -40, -40, -30>>,
           <<-30, -40, -40, -50, -50, -40, -40, -30>>,
           <<-30, -40, -40, -50, -50, -40, -40, -30>>,
           <<-30, -40, -40, -50, -50, -40, -40, -30>>,
           <<-20, -30, -30, -40, -40, -30, -30, -20>>,
           <<-10, -20, -20, -20, -20, -20, -20, -10>>,
           <<20, 20, 0, 0, 0, 0, 20, 20>>,
           <<20, 30, 10, 0, 0, 10, 30, 20>> >>

\* getPositionValue: the table is read from black's side, flipped for white
getPositionValue(piece, row, col) ==
    LET evalRow == IF piece.color = "white" THEN 7 - row ELSE row
    IN positionTables(piece.type)[evalRow + 1][col + 1]

\* evaluateGameState: the center and development bonuses
evaluateGameState(b) ==
    LET centerSquares == {<<3, 3>>, <<3, 4>>, <<4, 3>>, <<4, 4>>}
        center == 30 * Cardinality({ s \in centerSquares : b[s[1]][s[2]].color = aiColor })
        developed == Cardinality({ c \in {1, 6} : b[0][c].type # "knight" })
                     + Cardinality({ c \in {2, 5} : b[0][c].type # "bishop" })
    IN center + (IF aiColor = "black" THEN 20 * developed ELSE 0)

RECURSIVE boardSum(_, _)
\* evaluateBoard's double loop, from square number k on
boardSum(b, k) ==
    IF k = 64 THEN 0
    ELSE LET row == k \div 8
             col == k % 8
             piece == b[row][col]
             totalValue == pieceValues(piece.type) + getPositionValue(piece, row, col)
         IN (IF piece = Null THEN 0
             ELSE IF piece.color = aiColor THEN totalValue ELSE 0 - totalValue)
            + boardSum(b, k + 1)

evaluateBoard(b) == boardSum(b, 0) + evaluateGameState(b)

RECURSIVE movesInOrder(_)
\* the list getAllValidMoves builds: by source square row by row, then by
\* destination
movesInOrder(S) ==
    IF S = {} THEN <<>>
    ELSE LET m == leastMove(S) IN <<m>> \o movesInOrder(S \ {m})

Infinity == 1000000
MateScore == 10000

max(a, b) == IF a > b THEN a ELSE b
min(a, b) == IF a < b THEN a ELSE b

SearchResult(score, move, threw) == [score |-> score, move |-> move, threw |-> threw]

RECURSIVE minimax(_, _, _, _, _, _)
RECURSIVE searchMoves(_, _, _, _, _, _, _, _, _)

\* the loop of minimax over validMoves from index i on, with the best score
\* and move so far; an exception in a child ends it
searchMoves(b, depth, alpha, beta, isMaximizing, validMoves, i, bestScore, bestMove) ==
    IF i > Len(validMoves) THEN SearchResult(bestScore, bestMove, FALSE)
    ELSE LET move == validMoves[i]
             result == minimax(aiMakeMove(b, move), depth - 1, alpha, beta,
                               ~isMaximizing, TRUE)
             better == IF isMaximizing THEN result.score > bestScore
                       ELSE result.score < bestScore
             score == IF better THEN result.score ELSE bestScore
             best == IF better THEN move ELSE bestMove
             a == IF isMaximizing THEN max(alpha, result.score) ELSE alpha
             c == IF isMaximizing THEN beta ELSE min(beta, result.score)
         IN IF result.threw THEN SearchResult(0, NoSquare, TRUE)
            ELSE IF c <= a THEN SearchResult(score, best, FALSE)
            ELSE searchMoves(b, depth, a, c, isMaximizing, validMoves, i + 1, score, best)

\* ChessAI.minimax; plain says that the pieces of the board are the plain
\* copies ChessAI.makeMove made, on which getAllValidMoves throws at the
\* first piece of the color (piece.getValidMoves is not a function)
minimax(b, depth, alpha, beta, isMaximizing, plain) ==
    IF depth = 0
    THEN SearchResult(evaluateBoard(b), NoSquare, FALSE)
    ELSE LET player == IF isMaximizing THEN aiColor ELSE getOppositeColor(aiColor)
         IN IF plain /\ \E s \in Squares : b[s[1]][s[2]].color = player
            THEN SearchResult(0, NoSquare, TRUE)
            ELSE LET validMoves == movesInOrder(getAllValidMoves(b, player))
                 IN IF Len(validMoves) = 0
                    THEN IF isKingInCheck(b, player)
                         THEN SearchResult(IF isMaximizing THEN 0 - MateScore ELSE MateScore,
                                           NoSquare, FALSE)
                         ELSE SearchResult(0, NoSquare, FALSE)
                    ELSE searchMoves(b, depth, alpha, beta, isMaximizing, validMoves, 1,
                                     IF isMaximizing THEN 0 - Infinity ELSE Infinity,
                                     NoSquare)

getMaxDepth ==
    CASE gameMode = "easy" -> 2
      [] gameMode = "medium" -> 4
      [] gameMode = "hard" -> 6
      [] OTHER -> 2

\* getBestMove without its try and catch: an exception of the search gets out
getBestMoveNoCatch(b, name, history) ==
    IF gameMode = "easy"
    THEN [moves |-> getRandomMove(b, name, history), how |-> "random"]
    ELSE LET result == minimax(b, getMaxDepth, 0 - Infinity, Infinity, TRUE, FALSE)
         IN IF result.threw
            THEN [moves |-> {}, how |-> "error"]
            ELSE [moves |-> IF result.move = NoSquare THEN {} ELSE {result.move},
                  how |-> "search"]

\* getBestMove after its delay: the moves it may return (none for null) and
\* how it came to them
getBestMove(b, name, history) ==
    IF gameMode = "easy"
    THEN [moves |-> getRandomMove(b, name, history), how |-> "random"]
    ELSE LET result == minimax(b, getMaxDepth, 0 - Infinity, Infinity, TRUE, FALSE)
         IN IF result.threw
            THEN [moves |-> getRandomMove(b, name, history), how |-> "fallback"]
            ELSE [moves |-> IF result.move = NoSquare THEN {} ELSE {result.move},
                  how |-> "search"]

(***************************************************************************)
(* Actions                                                                  *)
(***************************************************************************)

\* what the last step did: the operation, whether the bot made it, why it was
\* refused ("none" when it was not), the color of the piece it moved, the side
\* to move and the status when it started, whether the move listener ran and
\* recorded a move, the squares a move attempt named, the piece picked in
\* the promotion dialog, and the number of the game the operation was
\* requested or scheduled in
Event(op, ai, result, color, player, status, handled, from, to, choice) ==
    [op |-> op, ai |-> ai, result |-> result, color |-> color,
     player |-> player, status |-> status, handled |-> handled,
     from |-> from, to |-> to, choice |-> choice, game |-> games]

recorded(g) == Len(g.moveHistory) = Len(moveHistory) + 1

\* the program variables take the values of g
Becomes(g) ==
    /\ board' = g.board
    /\ lastMove' = g.lastMove
    /\ currentPlayer' = g.currentPlayer
    /\ gameState' = g.gameState
    /\ moveHistory' = g.moveHistory
    /\ capturedPieces' = g.capturedPieces
    /\ thinking' = g.thinking
    /\ pending' = g.pending
    /\ moveSeq' = g.moveSeq
    /\ aiCall' = g.aiCall
    /\ clock' = g.clock
    /\ UNCHANGED <<gameMode, script, node, heap, server, client, wire>>

\* the position a move is made in, kept under the move's number
Position(id) ==
    [board |-> board, capturedPieces |-> capturedPieces,
     currentPlayer |-> currentPlayer, id |-> id]

NoPosition == [id |-> 0]

\* a call of ChessAI.minimax: its board, depth and isMaximizing, whether the
\* pieces of the board are the plain copies of ChessAI.makeMove, the position
\* of the game the search started from and the move that led to the board
\* (none at the root), and what the call returned once it has run
Node(b, depth, isMaximizing, plain, root, move) ==
    [board |-> b, depth |-> depth, isMaximizing |-> isMaximizing, plain |-> plain,
     root |-> root, move |-> move, visited |-> FALSE,
     result |-> SearchResult(0, NoSquare, FALSE)]

NoNode == [depth |-> 0, visited |-> FALSE]

\* the objects of a run of the legality queries: boards[i] is a board array,
\* holding on each square a reference to a piece object (0 for null), and
\* pieces[p] is the piece object a reference p stands for
Heap(boards, pieces) == [boards |-> boards, pieces |-> pieces]

NoHeap == Heap(<<>>, <<>>)

\* no room server and no online manager: a game at one board
NoServer == [open |-> {}]
NoClient == [isConnected |-> FALSE]
NoWire == [sent |-> <<>>]

Init ==
    /\ board = createInitialBoard
    /\ lastMove = NoMove
    /\ currentPlayer = "white"
    /\ gameState = "playing"
    /\ moveHistory = <<>>
    /\ capturedPieces = [white |-> <<>>, black |-> <<>>]
    /\ \E session \in Sessions : script = session[1] /\ gameMode = session[2]
    /\ thinking = FALSE
    /\ pending = <<>>
    /\ moveSeq = 0
    /\ undos = 0
    /\ games = 0
    /\ ev = Event("init", FALSE, "none", "none", "white", "playing", FALSE, NoSquare, NoSquare, "none")
    /\ prior = NoPosition
    /\ aiCall = NoCall
    /\ node = NoNode
    /\ heap = NoHeap
    /\ server = NoServer
    /\ client = NoClient
    /\ clock = Clock
    /\ wire = NoWire

\* the user drops a piece: board.makeMove(fromRow, fromCol, toRow, toCol)
HumanMove ==
    \E mv \in Window(script, moveHistory) :
      \E g \in {makeMove(Game, mv[1], mv[2], mv[3], mv[4], FALSE)} :
        /\ Becomes(g)
        /\ ev' = Event("move", FALSE,
                       rejection(Game, mv[1], mv[2], mv[3], mv[4], FALSE),
                       board[mv[1]][mv[2]].color, currentPlayer, gameState, recorded(g),
                       <<mv[1], mv[2]>>, <<mv[3], mv[4]>>, "none")
        /\ prior' = IF g.moveSeq # moveSeq THEN Position(g.moveSeq) ELSE prior
        /\ UNCHANGED <<undos, games>>

\* the user clicks 'undo'
Undo ==
    /\ script \in UndoScripts
    /\ undos < MaxUndo
    /\ \E g \in {undoLastMove(Game)} : Becomes(g)
    /\ undos' = undos + 1
    /\ ev' = Event("undo", FALSE, IF Len(moveHistory) = 0 THEN "nohistory" ELSE "none",
                   "none", currentPlayer, gameState, FALSE, NoSquare, NoSquare, "none")
    /\ UNCHANGED <<games, prior>>

\* the user clicks 'new game' and confirms
NewGame ==
    /\ script \in NewGameScripts
    /\ games < MaxNewGames
    /\ Becomes([startGame(Game) EXCEPT !.moveSeq = 0])
    /\ games' = games + 1
    /\ ev' = Event("newgame", FALSE, "none", "none", currentPlayer, gameState, FALSE, NoSquare, NoSquare, "none")
    /\ prior' = NoPosition
    /\ UNCHANGED undos

\* a delayed dispatchMoveEvent runs (castling, the bot's promotion)
FireDispatch ==
    \E i \in 1..Len(pending) :
        /\ pending[i].kind = "dispatch"
        /\ canFire(pending, i)
        /\ \E g \in {handleMove([Game EXCEPT !.pending = removeAt(pending, i)])} :
             /\ Becomes(g)
             /\ ev' = Event("dispatch", FALSE,
                            IF lastMove = NoMove THEN "throws" ELSE "none",
                            lastMove.piece.color, currentPlayer, gameState, recorded(g),
                            NoSquare, NoSquare, "none")
        /\ UNCHANGED <<undos, games, prior>>

\* the user picks a piece in the promotion dialog
FirePromotion ==
    \E i \in 1..Len(pending), chosenPiece \in PromotionChoices :
        /\ pending[i].kind = "promotion"
        /\ canFire(pending, i)
        /\ \E g \in {promotionChosen([Game EXCEPT !.pending = removeAt(pending, i)],
                                     pending[i], chosenPiece)} :
             /\ Becomes(g)
             /\ ev' = Event("promotion", FALSE,
                            IF lastMove = NoMove THEN "throws" ELSE "none",
                            pending[i].color, currentPlayer, gameState, recorded(g),
                            NoSquare, pending[i].to, chosenPiece)
        /\ UNCHANGED <<undos, games, prior>>

\* the thinking delay is over: getBestMove picks a move on its snapshot and
\* makeAIMove schedules it (at medium and hard the search throws on the first
\* simulated board and the random move is the result)
FireThink ==
    \E i \in 1..Len(pending) :
        /\ pending[i].kind = "think"
        /\ canFire(pending, i)
        /\ \E answer \in {getBestMove(pending[i].snapshot, script, moveHistory)} :
           LET rest == removeAt(pending, i)
           IN /\ \/ /\ answer.moves = {}
                    /\ pending' = rest
                    /\ aiCall' = AICall(pending[i].snapshot, NoSquare, answer.how)
                 \/ \E mv \in answer.moves :
                       /\ pending' = Append(rest, ApplyTask(mv[1], mv[2], pending[i].game))
                       /\ aiCall' = AICall(pending[i].snapshot, mv, answer.how)
              /\ thinking' = FALSE
              /\ ev' = Event("think", TRUE, IF answer.moves = {} THEN "null" ELSE "none",
                             "none", currentPlayer, gameState, FALSE, NoSquare, NoSquare, "none")
        /\ UNCHANGED <<board, lastMove, currentPlayer, gameState, moveHistory,
                       capturedPieces, gameMode, script, moveSeq, undos, games, prior,
                       node, heap, server, client, clock, wire>>

\* the bot's move is executed: board.makeMove(fromRow, fromCol, toRow, toCol, true)
FireApply ==
    \E i \in 1..Len(pending) :
        /\ pending[i].kind = "apply"
        /\ canFire(pending, i)
        /\ LET g0 == [Game EXCEPT !.pending = removeAt(pending, i)]
               from == pending[i].from
               to == pending[i].to
           IN \E g \in {makeMove(g0, from[1], from[2], to[1], to[2], TRUE)} :
                /\ Becomes(g)
                /\ ev' = [Event("move", TRUE,
                                rejection(g0, from[1], from[2], to[1], to[2], TRUE),
                                board[from[1]][from[2]].color, currentPlayer, gameState,
                                recorded(g), from, to, "none")
                             EXCEPT !.game = pending[i].game]
                /\ prior' = IF g.moveSeq # moveSeq THEN Position(g.moveSeq) ELSE prior
        /\ UNCHANGED <<undos, games>>

Next ==
    \/ HumanMove
    \/ Undo
    \/ NewGame
    \/ FireDispatch
    \/ FirePromotion
    \/ FireThink
    \/ FireApply

Spec == Init /\ [][Next]_vars

\* the timers of the browser fire: a callback that setTimeout has scheduled is
\* run in the end; what the user does is up to the user
\* the games the clock is followed through: one with a check that is escaped from,
\* one against the bot, one that is started anew
ClockSessions == {<<"stalemate", "local">>, <<"scholar", "local">>, <<"scholar", "easy">>}

ClockInit == Init /\ <<script, gameMode>> \in ClockSessions

\* the timeout of startGame runs: isTimerActive = true; startTimer()
StartClock ==
    /\ clock.starting > 0
    /\ clock' = [startTimer(clock) EXCEPT !.starting = @ - 1]
    /\ UNCHANGED <<board, lastMove, currentPlayer, gameState, moveHistory, capturedPieces,
                   gameMode, thinking, pending, script, moveSeq, undos, games, ev, prior,
                   aiCall, node, heap, server, client, wire>>

\* the interval callback of startTimer runs (every 100 ms while the interval is set):
\* it stops the clock when the status is not 'playing', and counts the time of the
\* side to move otherwise; a game is over before a flag falls
Tick ==
    /\ clock.timerInterval
    /\ clock' = IF gameState # "playing" THEN stopTimer(clock)
                ELSE [clock EXCEPT !.counted = currentPlayer]
    /\ UNCHANGED <<board, lastMove, currentPlayer, gameState, moveHistory, capturedPieces,
                   gameMode, thinking, pending, script, moveSeq, undos, games, ev, prior,
                   aiCall, node, heap, server, client, wire>>

ClockNext ==
    \/ HumanMove
    \/ Undo
    \/ NewGame
    \/ FireThink
    \/ FireApply
    \/ StartClock
    \/ Tick

ClockSpec == ClockInit /\ [][ClockNext]_vars

\* a timer callback that is due: the event loop runs it (setTimeout callbacks are
\* never starved); every Fire action is enabled exactly when its task is due
taskDue(kind) == \E i \in 1..Len(pending) : pending[i].kind = kind /\ canFire(pending, i)

\* weak fairness of the two bot callbacks, with their enabling conditions written out
ThinkRuns == ([]<>~taskDue("think")) \/ ([]<><<FireThink>>_vars)
ApplyRuns == ([]<>~taskDue("apply")) \/ ([]<><<FireApply>>_vars)

LiveSpec ==
    Init /\ [][Next]_vars
         /\ WF_vars(FireDispatch)
         /\ ThinkRuns /\ ApplyRuns

(***************************************************************************)
(* The search taken alone: ChessAI.minimax applied to the positions of the  *)
(* scripted games and to the boards its own loop makes of them              *)
(***************************************************************************)

SearchScripts == {"scholar", "fool", "stalemate", "castle", "cross"}
SearchModes == {"medium", "hard"}

\* the board and the side to move after the first k entries of a script, the
\* entries the rules refuse left out
RECURSIVE positionAfter(_, _)
positionAfter(name, k) ==
    IF k = 0 THEN [board |-> createInitialBoard, currentPlayer |-> "white"]
    ELSE LET p == positionAfter(name, k - 1)
             mv == Script(name)[k]
             piece == p.board[mv[1]][mv[2]]
             moved == movedBoard(p.board, mv[1], mv[2], mv[3], mv[4])
         IN IF /\ piece # Null
               /\ piece.color = p.currentPlayer
               /\ isValidMove(piece, mv[3], mv[4], p.board)
            THEN [board |-> IF isCastling(p.board, mv[1], mv[2], mv[3], mv[4])
                            THEN castledBoard(p.board, mv[1], mv[2], mv[3], mv[4])
                            ELSE IF isPawnPromotion(p.board, mv[1], mv[2], mv[3], mv[4])
                            THEN promotePawn(moved, mv[3], mv[4], "queen", piece.color)
                            ELSE moved,
                  currentPlayer |-> getOppositeColor(p.currentPlayer)]
            ELSE p

\* getBestMove's call: minimax(board, this.maxDepth, -Infinity, Infinity, true)
\* on the board state of a game with the bot's color to move
SearchInit ==
    /\ \E name \in SearchScripts, mode \in SearchModes :
          /\ script = name
          /\ gameMode = mode
          /\ \E k \in 0..Len(Script(name)) :
              \E p \in {positionAfter(name, k)} :
                /\ p.currentPlayer = aiColor
                /\ board = p.board
                /\ currentPlayer = p.currentPlayer
                /\ moveSeq = k
                /\ node = Node(p.board, getMaxDepth, TRUE, FALSE, k, NoSquare)
    /\ lastMove = NoMove
    /\ gameState = "playing"
    /\ moveHistory = <<>>
    /\ capturedPieces = [white |-> <<>>, black |-> <<>>]
    /\ thinking = TRUE
    /\ pending = <<>>
    /\ undos = 0
    /\ games = 0
    /\ ev = Event("search", TRUE, "none", "none", currentPlayer, "playing", FALSE,
                  NoSquare, NoSquare, "none")
    /\ prior = NoPosition
    /\ aiCall = NoCall
    /\ heap = NoHeap
    /\ server = NoServer
    /\ client = NoClient
    /\ clock = Clock
    /\ wire = NoWire

\* the player minimax takes to be on the move at a node
playerOf(n) == IF n.isMaximizing THEN aiColor ELSE getOppositeColor(aiColor)

\* the loop of minimax reaches a move and calls itself on the board
\* this.makeMove(board, move) returns; only a call that got its list of moves
\* has a loop
SearchDescend ==
    /\ ~node.visited
    /\ node.depth > 0
    /\ ~(node.plain /\ \E s \in Squares : node.board[s[1]][s[2]].color = playerOf(node))
    /\ \E move \in getAllValidMoves(node.board, playerOf(node)) :
          node' = Node(aiMakeMove(node.board, move), node.depth - 1, ~node.isMaximizing,
                       TRUE, node.root, move)
    /\ UNCHANGED <<gameVars, heap, server, client, wire>>

\* the call runs
SearchVisit ==
    /\ ~node.visited
    /\ node' = [node EXCEPT !.visited = TRUE,
                            !.result = minimax(node.board, node.depth, 0 - Infinity,
                                               Infinity, node.isMaximizing, node.plain)]
    /\ UNCHANGED <<gameVars, heap, server, client, wire>>

SearchNext ==
    \/ SearchDescend
    \/ SearchVisit

SearchSpec == SearchInit /\ [][SearchNext]_vars

(***************************************************************************)
(* The legality queries and the search's move maker taken alone, on board   *)
(* arrays and piece objects held by reference                               *)
(***************************************************************************)

HeapScripts == {"cross", "fool"}

\* the squares of a board array that hold a reference, and the place of one of
\* them among them in row order
occupied(cells) == { s \in Squares : cells[s[1]][s[2]] # 0 }
place(S, s) == Cardinality({ t \in S : t[1] * 8 + t[2] <= s[1] * 8 + s[2] })

\* the board a board array stands for
deref(h, id) ==
    [r \in 0..7 |-> [c \in 0..7 |->
        IF h.boards[id][r][c] = 0 THEN Null ELSE h.pieces[h.boards[id][r][c]]]]

\* the objects of a game on the position b: ChessBoard's board array, the
\* live board, with one object for each piece
liveHeap(b) ==
    LET S == { s \in Squares : b[s[1]][s[2]] # Null }
    IN Heap(<< [r \in 0..7 |-> [c \in 0..7 |->
                  IF b[r][c] = Null THEN 0 ELSE place(S, <<r, c>>)]] >>,
            [i \in 1..Cardinality(S) |->
                  LET s == CHOOSE s \in S : place(S, s) = i IN b[s[1]][s[2]]])

\* ChessPiece.clone: a new piece of the same type, color, row and col, with
\* hasMoved and moveCount copied
clone(piece) ==
    [type |-> piece.type, color |-> piece.color, row |-> piece.row, col |-> piece.col,
     hasMoved |-> piece.hasMoved, moveCount |-> piece.moveCount]

\* no copy is made: the array passed in is the one written to
heapCopyShared(h, id) == [heap |-> h, id |-> id]

\* board.map(row => row.map(piece => piece ? piece.clone() : null)), and
\* ChessAI.makeMove's { ...piece }: a new board array holding new objects
heapCopy(h, id) ==
    LET cells == h.boards[id]
        S == occupied(cells)
        n == Len(h.pieces)
    IN [heap |-> Heap(Append(h.boards,
                             [r \in 0..7 |-> [c \in 0..7 |->
                                 IF cells[r][c] = 0 THEN 0 ELSE n + place(S, <<r, c>>)]]),
                      h.pieces \o
                         [i \in 1..Cardinality(S) |->
                             LET s == CHOOSE s \in S : place(S, s) = i
                             IN clone(h.pieces[cells[s[1]][s[2]]])]),
        id |-> Len(h.boards) + 1]

\* the writes simulateMove and ChessAI.makeMove make for a move on the board
\* array they hold: the squares of the array and row and col of the objects
heapMove(h, id, fromRow, fromCol, toRow, toCol) ==
    LET piece == h.boards[id][fromRow][fromCol]
    IN IF piece = 0 THEN h
       ELSE IF h.pieces[piece].type = "king" /\ absDiff(toCol, fromCol) = 2
       THEN LET isKingside == toCol = 6
                rookFromCol == IF isKingside THEN 7 ELSE 0
                rookToCol == IF isKingside THEN 5 ELSE 3
                rook == h.boards[id][fromRow][rookFromCol]
                h1 == Heap([h.boards EXCEPT ![id][toRow][toCol] = piece,
                                            ![id][fromRow][fromCol] = 0],
                           [h.pieces EXCEPT ![piece].row = toRow, ![piece].col = toCol])
            IN IF rook # 0
               THEN Heap([h1.boards EXCEPT ![id][fromRow][rookToCol] = rook,
                                           ![id][fromRow][rookFromCol] = 0],
                         [h1.pieces EXCEPT ![rook].row = fromRow, ![rook].col = rookToCol])
               ELSE h1
       ELSE Heap([h.boards EXCEPT ![id][toRow][toCol] = piece,
                                  ![id][fromRow][fromCol] = 0],
                 [h.pieces EXCEPT ![piece].row = toRow, ![piece].col = toCol])

\* MoveValidator.simulateMove(board, ...): the objects after it and the array
\* it returns
heapSimulateMove(h, id, fromRow, fromCol, toRow, toCol) ==
    LET copy == heapCopy(h, id)
    IN [heap |-> heapMove(copy.heap, copy.id, fromRow, fromCol, toRow, toCol),
        id |-> copy.id]

\* ChessAI.makeMove(board, move)
heapAIMakeMove(h, id, move) ==
    LET copy == heapCopy(h, id)
    IN [heap |-> heapMove(copy.heap, copy.id, move[1][1], move[1][2], move[2][1], move[2][2]),
        id |-> copy.id]

\* the objects after MoveValidator.isCastlingValid(king, toRow, toCol, board)
heapIsCastlingValid(h, id, king, toCol) ==
    IF isKingInCheck(deref(h, id), king.color) THEN h
    ELSE LET first == IF toCol = 6 THEN 5 ELSE 3
             second == IF toCol = 6 THEN 6 ELSE 2
             one == heapSimulateMove(h, id, king.row, king.col, king.row, first)
         IN IF toCol \notin {6, 2} THEN h
            ELSE IF isKingInCheck(deref(one.heap, one.id), king.color) THEN one.heap
            ELSE heapSimulateMove(one.heap, id, king.row, king.col, king.row, second).heap

\* the objects after MoveValidator.isValidMove(piece, toRow, toCol, board),
\* piece being the object on the square s of the array
heapIsValidMove(h, id, s, toRow, toCol) ==
    LET b == deref(h, id)
        piece == b[s[1]][s[2]]
    IN IF \/ ~isValidSquare(toRow, toCol)
          \/ (b[toRow][toCol] # Null /\ b[toRow][toCol].color = piece.color)
          \/ <<toRow, toCol>> \notin getValidMoves(piece, b)
       THEN h
       ELSE IF piece.type = "king" /\ absDiff(toCol, piece.col) = 2
       THEN heapIsCastlingValid(h, id, piece, toCol)
       ELSE heapSimulateMove(h, id, piece.row, piece.col, toRow, toCol).heap

\* the objects, and which board array is the board state getBoardState
\* returned (0 when it was not called)
Tracked(h, snapshot) == [boards |-> h.boards, pieces |-> h.pieces, snapshot |-> snapshot]

\* a game on one of the positions of the scripted games
HeapInit ==
    /\ \E name \in HeapScripts :
          /\ script = name
          /\ \E k \in 0..Len(Script(name)) :
              \E p \in {positionAfter(name, k)} :
                /\ board = p.board
                /\ currentPlayer = p.currentPlayer
                /\ moveSeq = k
                /\ heap = Tracked(liveHeap(p.board), 0)
    /\ gameMode = "medium"
    /\ lastMove = NoMove
    /\ gameState = "playing"
    /\ moveHistory = <<>>
    /\ capturedPieces = [white |-> <<>>, black |-> <<>>]
    /\ thinking = FALSE
    /\ pending = <<>>
    /\ undos = 0
    /\ games = 0
    /\ ev = Event("query", FALSE, "none", "none", currentPlayer, "playing", FALSE,
                  NoSquare, NoSquare, "none")
    /\ prior = NoPosition
    /\ aiCall = NoCall
    /\ node = NoNode
    /\ server = NoServer
    /\ client = NoClient
    /\ clock = Clock
    /\ wire = NoWire

\* board.getBoardState(), for checkGameState and for makeAIMove
HeapGetBoardState ==
    /\ Len(heap.boards) = 1
    /\ \E copy \in {heapCopy(heap, 1)} :
          heap' = Tracked(copy.heap, copy.id)
    /\ UNCHANGED <<gameVars, node, server, client, wire>>

\* isValidMove is asked about a piece and a square: by board.makeMove on the
\* live board, by isCheckmate, isStalemate and getAllValidMoves on the board
\* state they were given
HeapIsValidMove ==
    /\ \/ Len(heap.boards) = 1
       \/ Len(heap.boards) = 2 /\ heap.snapshot = 2
    /\ \E b \in {deref(heap, Len(heap.boards))} :
         \E s \in occupied(heap.boards[Len(heap.boards)]) :
           \E t \in getValidMoves(b[s[1]][s[2]], b) :
             \E after \in {heapIsValidMove(heap, Len(heap.boards), s, t[1], t[2])} :
               /\ after.boards # heap.boards
               /\ heap' = Tracked(after, heap.snapshot)
    /\ UNCHANGED <<gameVars, node, server, client, wire>>

\* the search makes one of the bot's moves on the board state it was given
HeapAIMakeMove ==
    /\ Len(heap.boards) = 2 /\ heap.snapshot = 2
    /\ \E move \in getAllValidMoves(deref(heap, 2), aiColor) :
          \E after \in {heapAIMakeMove(heap, 2, move).heap} :
             heap' = Tracked(after, heap.snapshot)
    /\ UNCHANGED <<gameVars, node, server, client, wire>>

HeapNext ==
    \/ HeapGetBoardState
    \/ HeapIsValidMove
    \/ HeapAIMakeMove

HeapSpec == HeapInit /\ [][HeapNext]_vars

(***************************************************************************)
(* The room server (src/api/chess.js, the WebSocket server)                 *)
(***************************************************************************)

MaxConns == 3
MaxCodes == 2

\* the WebSocket connections there may be, none of them opened twice, and the
\* codes generateRoomCode may draw
Conns == 1..MaxConns
Codes == 1..MaxCodes

\* a game at one board that nobody plays
GameAtRest ==
    /\ board = createInitialBoard
    /\ lastMove = NoMove
    /\ currentPlayer = "white"
    /\ gameState = "playing"
    /\ moveHistory = <<>>
    /\ capturedPieces = [white |-> <<>>, black |-> <<>>]
    /\ gameMode = "local"
    /\ script = "fool"
    /\ thinking = FALSE
    /\ pending = <<>>
    /\ moveSeq = 0
    /\ undos = 0
    /\ games = 0
    /\ ev = Event("init", FALSE, "none", "none", "white", "playing", FALSE,
                  NoSquare, NoSquare, "none")
    /\ prior = NoPosition
    /\ aiCall = NoCall
    /\ node = NoNode
    /\ heap = NoHeap
    /\ clock = Clock

\* an entry of room.players and of the players map
Player(ws, color, roomCode, isHost) ==
    [ws |-> ws, color |-> color, roomCode |-> roomCode, isHost |-> isHost]

\* players.get(ws) is undefined
NoPlayer == Player(0, "none", 0, FALSE)

\* rooms.get(code): exists is false when the map has no such key
Room(players, gameStarted) == [players |-> players, gameStarted |-> gameStarted, exists |-> TRUE]
NoRoom == [players |-> <<>>, gameStarted |-> FALSE, exists |-> FALSE]

\* what a connection asked last and what the server sent back to it
Request(type, ws, roomCode) == [type |-> type, ws |-> ws, roomCode |-> roomCode]
Reply(type, message) == [type |-> type, message |-> message, to |-> {}]
NoReply == Reply("none", "")

\* room.players.filter(p => p.ws !== ws)
RECURSIVE without(_, _)
without(players, ws) ==
    IF players = <<>> THEN <<>>
    ELSE (IF Head(players).ws = ws THEN <<>> ELSE <<Head(players)>>)
         \o without(Tail(players), ws)

\* handleCreateRoom; when the code drawn is taken, the assignment to the const
\* roomCode throws and the message handler answers 'Invalid message format'
handleCreateRoom(s, ws, roomCode) ==
    IF s.rooms[roomCode].exists
    THEN [s EXCEPT !.reply = Reply("error", "Invalid message format")]
    ELSE LET player == Player(ws, "white", roomCode, TRUE)
         IN [s EXCEPT !.rooms[roomCode] = Room(<<player>>, FALSE),
                      !.players[ws] = player,
                      !.reply = Reply("roomCreated", "")]

handleJoinRoom(s, ws, roomCode) ==
    LET room == s.rooms[roomCode]
        player == Player(ws, "black", roomCode, FALSE)
    IN IF ~room.exists THEN [s EXCEPT !.reply = Reply("error", "Room not found")]
       ELSE IF Len(room.players) >= 2 THEN [s EXCEPT !.reply = Reply("error", "Room is full")]
       ELSE IF room.gameStarted
       THEN [s EXCEPT !.reply = Reply("error", "Game already in progress")]
       ELSE [s EXCEPT !.rooms[roomCode].players = Append(@, player),
                      !.players[ws] = player,
                      !.reply = Reply("roomJoined", "")]

handleLeaveRoom(s, ws) ==
    LET player == s.players[ws]
        room == s.rooms[player.roomCode]
        left == without(room.players, ws)
    IN IF player = NoPlayer THEN [s EXCEPT !.reply = NoReply]
       ELSE IF ~room.exists THEN [s EXCEPT !.reply = NoReply]
       ELSE [s EXCEPT !.rooms[player.roomCode] =
                          IF Len(left) > 0 THEN [room EXCEPT !.players = left] ELSE NoRoom,
                      !.players[ws] = NoPlayer,
                      !.reply = NoReply]

\* handleStartGame without its test of player.isHost
handleStartGameByAnyone(s, ws) ==
    LET player == s.players[ws]
        room == s.rooms[player.roomCode]
    IN IF player = NoPlayer THEN [s EXCEPT !.reply = Reply("error", "Player not in room")]
       ELSE IF ~room.exists THEN [s EXCEPT !.reply = Reply("error", "Room not found")]
       ELSE IF Len(room.players) < 2
       THEN [s EXCEPT !.reply = Reply("error", "Need 2 players to start")]
       ELSE IF room.gameStarted
       THEN [s EXCEPT !.reply = Reply("error", "Game already started")]
       ELSE [s EXCEPT !.rooms[player.roomCode].gameStarted = TRUE,
                      !.reply = Reply("gameStarted", "")]

handleStartGame(s, ws) ==
    LET player == s.players[ws]
        room == s.rooms[player.roomCode]
    IN IF player = NoPlayer THEN [s EXCEPT !.reply = Reply("error", "Player not in room")]
       ELSE IF ~room.exists THEN [s EXCEPT !.reply = Reply("error", "Room not found")]
       ELSE IF ~player.isHost
       THEN [s EXCEPT !.reply = Reply("error", "Only host can start game")]
       ELSE IF Len(room.players) < 2
       THEN [s EXCEPT !.reply = Reply("error", "Need 2 players to start")]
       ELSE IF room.gameStarted
       THEN [s EXCEPT !.reply = Reply("error", "Game already started")]
       ELSE [s EXCEPT !.rooms[player.roomCode].gameStarted = TRUE,
                      !.reply = Reply("gameStarted", "")]

\* the connections broadcastToRoom sends to: every entry of the room's list other
\* than excludeWs whose socket is open
broadcastToRoom(s, roomCode, excludeWs) ==
    { ws \in s.open \ {excludeWs} :
        \E i \in 1..Len(s.rooms[roomCode].players) : s.rooms[roomCode].players[i].ws = ws }

\* handleMove of the server: 'moveReceived' goes to the sender's room
handleMoveMessage(s, ws) ==
    LET player == s.players[ws]
        room == s.rooms[player.roomCode]
    IN IF player = NoPlayer THEN [s EXCEPT !.reply = Reply("error", "Player not in room")]
       ELSE IF ~room.exists \/ ~room.gameStarted
       THEN [s EXCEPT !.reply = Reply("error", "Game not started")]
       ELSE [s EXCEPT !.reply = [Reply("moveReceived", "")
                                    EXCEPT !.to = broadcastToRoom(s, player.roomCode, ws)]]

\* the server has started: no room, no player, no connection
RoomInit ==
    /\ GameAtRest
    /\ client = NoClient
    /\ wire = NoWire
    /\ server = [rooms |-> [code \in Codes |-> NoRoom],
                 players |-> [ws \in Conns |-> NoPlayer],
                 open |-> {}, closed |-> {},
                 request |-> Request("none", 0, 0), reply |-> NoReply]

\* wss.on('connection')
Connection ==
    /\ \E ws \in Conns \ (server.open \cup server.closed) :
          server' = [server EXCEPT !.open = @ \cup {ws},
                                   !.request = Request("connection", ws, 0),
                                   !.reply = Reply("connected", "")]
    /\ UNCHANGED <<gameVars, node, heap, client, wire>>

\* a 'createRoom' message
CreateRoom ==
    /\ \E ws \in server.open, roomCode \in Codes :
          server' = [handleCreateRoom(server, ws, roomCode)
                        EXCEPT !.request = Request("createRoom", ws, roomCode)]
    /\ UNCHANGED <<gameVars, node, heap, client, wire>>

\* a 'joinRoom' message
JoinRoom ==
    /\ \E ws \in server.open, roomCode \in Codes :
          server' = [handleJoinRoom(server, ws, roomCode)
                        EXCEPT !.request = Request("joinRoom", ws, roomCode)]
    /\ UNCHANGED <<gameVars, node, heap, client, wire>>

\* a 'leaveRoom' message
LeaveRoom ==
    /\ \E ws \in server.open :
          server' = [handleLeaveRoom(server, ws)
                        EXCEPT !.request = Request("leaveRoom", ws, 0)]
    /\ UNCHANGED <<gameVars, node, heap, client, wire>>

\* ws.on('close')
Close ==
    /\ \E ws \in server.open :
          server' = [handleLeaveRoom(server, ws)
                        EXCEPT !.open = @ \ {ws}, !.closed = @ \cup {ws},
                               !.request = Request("close", ws, 0)]
    /\ UNCHANGED <<gameVars, node, heap, client, wire>>

\* a 'startGame' message
StartGame ==
    /\ \E ws \in server.open :
          server' = [handleStartGame(server, ws)
                        EXCEPT !.request = Request("startGame", ws, 0)]
    /\ UNCHANGED <<gameVars, node, heap, client, wire>>

\* a 'move' message
Move ==
    /\ \E ws \in server.open :
          server' = [handleMoveMessage(server, ws)
                        EXCEPT !.request = Request("move", ws, 0)]
    /\ UNCHANGED <<gameVars, node, heap, client, wire>>

RoomNext ==
    \/ Connection
    \/ CreateRoom
    \/ JoinRoom
    \/ LeaveRoom
    \/ Close
    \/ StartGame
    \/ Move

RoomSpec == RoomInit /\ [][RoomNext]_vars

(***************************************************************************)
(* The client's connection (src/js/online-manager.js)                       *)
(***************************************************************************)

MaxSockets == 3
MaxTimers == 3

maxReconnectAttempts == 5
reconnectDelay == 1000

\* the close code of socket.close(1000, 'User disconnected'), the code of a
\* server that goes away and the code of a connection that failed
NormalClosure == 1000
GoingAway == 1001
AbnormalClosure == 1006

SocketIds == 1..MaxSockets

\* a WebSocket of attemptConnection: its url, its readyState, whether its
\* connectionTimeout is armed, and the code close() was called with
Socket(url, readyState, timeout, code) ==
    [url |-> url, readyState |-> readyState, timeout |-> timeout, code |-> code]
NoSocket == Socket("none", "closed", FALSE, 0)

\* what the step was: the callback, the socket and the close code
Callback(name, id, code) == [name |-> name, id |-> id, code |-> code]

\* new OnlineChessManager()
Manager ==
    [isConnected |-> FALSE, isConnecting |-> FALSE, reconnect |-> TRUE,
     reconnectAttempts |-> 0, socket |-> 0,
     sockets |-> [id \in SocketIds |-> NoSocket],
     timers |-> <<>>, fired |-> 0, emitted |-> "none", destroyed |-> FALSE,
     op |-> Callback("constructor", 0, 0)]

freeSockets(c) == { id \in SocketIds : c.sockets[id] = NoSocket }

\* attemptConnection(url): this.socket = new WebSocket(url), timeout armed
attemptConnection(c, url) ==
    LET id == CHOOSE i \in freeSockets(c) : \A j \in freeSockets(c) : i <= j
    IN [c EXCEPT !.socket = id, !.sockets[id] = Socket(url, "connecting", TRUE, 0)]

connect(c) ==
    IF c.isConnected \/ c.isConnecting THEN c
    ELSE attemptConnection([c EXCEPT !.isConnecting = TRUE, !.emitted = "connecting"],
                           "url")

handleReconnection(c) ==
    IF c.reconnectAttempts >= maxReconnectAttempts
    THEN [c EXCEPT !.emitted = "error: unable to reconnect"]
    ELSE [c EXCEPT !.reconnectAttempts = @ + 1,
                   !.timers = Append(@, reconnectDelay * 2 ^ c.reconnectAttempts),
                   !.emitted = "reconnecting"]

onopen(c, id) ==
    [c EXCEPT !.sockets[id].readyState = "open", !.sockets[id].timeout = FALSE,
              !.isConnected = TRUE, !.isConnecting = FALSE,
              !.reconnectAttempts = 0, !.fired = 0, !.emitted = "connected"]

onclose(c, id, code) ==
    LET d == [c EXCEPT !.sockets[id] = NoSocket,
                       !.isConnected = FALSE, !.isConnecting = FALSE,
                       !.emitted = "disconnected"]
    IN IF d.reconnect /\ code # NormalClosure THEN handleReconnection(d) ELSE d

onerror(c, id) ==
    LET d == [c EXCEPT !.sockets[id].timeout = FALSE]
    IN IF c.sockets[id].url # "fallbackUrl"
       THEN attemptConnection(d, "fallbackUrl")
       ELSE [d EXCEPT !.isConnecting = FALSE, !.emitted = "error: failed to connect"]

\* this.socket?.close() of the connection timeout
closeCurrent(c) ==
    IF c.socket = 0 \/ c.sockets[c.socket].readyState \in {"closing", "closed"} THEN c
    ELSE IF c.sockets[c.socket].readyState = "open"
    THEN [c EXCEPT !.sockets[c.socket].readyState = "closing",
                   !.sockets[c.socket].code = NormalClosure]
    ELSE [c EXCEPT !.sockets[c.socket].readyState = "failing"]

\* the callback of connectionTimeout
connectionTimeout(c, id) ==
    LET d == [c EXCEPT !.sockets[id].timeout = FALSE]
    IN IF ~c.isConnecting THEN d
       ELSE IF c.sockets[id].url # "fallbackUrl"
       THEN attemptConnection(closeCurrent(d), "fallbackUrl")
       ELSE [closeCurrent(d) EXCEPT !.isConnecting = FALSE]

resetState(c) ==
    [c EXCEPT !.socket = 0, !.isConnected = FALSE, !.isConnecting = FALSE,
              !.reconnectAttempts = 0, !.fired = 0]

disconnect(c) ==
    LET d == [c EXCEPT !.reconnect = FALSE]
    IN resetState(IF c.socket # 0 /\ c.sockets[c.socket].readyState = "open"
                  THEN [d EXCEPT !.sockets[c.socket].readyState = "closing",
                                 !.sockets[c.socket].code = NormalClosure]
                  ELSE d)

\* the steps below create at most this many sockets and timers
roomFor(c) == freeSockets(c) # {} /\ Len(c.timers) < MaxTimers

\* a pending timer may fire unless one armed before it is due before it
due(c) ==
    { k \in 1..Len(c.timers) : \A j \in 1..(k - 1) : c.timers[j] > c.timers[k] }

RECURSIVE dropAt(_, _)
dropAt(timers, k) ==
    IF k = 1 THEN Tail(timers) ELSE <<Head(timers)>> \o dropAt(Tail(timers), k - 1)

ClientInit ==
    /\ GameAtRest
    /\ server = NoServer
    /\ wire = NoWire
    /\ client = Manager

\* connectToServer of the lobby: onlineManager.connect()
ConnectToServer ==
    /\ ~client.destroyed
    /\ roomFor(client)
    /\ client' = [connect(client) EXCEPT !.op = Callback("connect", 0, 0)]
    /\ UNCHANGED <<gameVars, node, heap, server, wire>>

\* socket.onopen
SocketOpen ==
    /\ \E id \in SocketIds :
          /\ client.sockets[id].readyState = "connecting"
          /\ client' = [onopen(client, id) EXCEPT !.op = Callback("onopen", id, 0)]
    /\ UNCHANGED <<gameVars, node, heap, server, wire>>

\* a connection that cannot be made: socket.onerror, then socket.onclose
SocketFail ==
    /\ roomFor(client)
    /\ \E id \in SocketIds :
          /\ client.sockets[id].readyState \in {"connecting", "failing"}
          /\ client' = [onclose(onerror(client, id), id, AbnormalClosure)
                           EXCEPT !.op = Callback("onerror", id, AbnormalClosure)]
    /\ UNCHANGED <<gameVars, node, heap, server, wire>>

\* an open connection is lost: the server closes it (1000, 1001) or it breaks
\* (1006, with or without an error event before the close event)
SocketLost ==
    /\ roomFor(client)
    /\ \E id \in SocketIds, code \in {NormalClosure, GoingAway, AbnormalClosure},
          error \in BOOLEAN :
          /\ client.sockets[id].readyState = "open"
          /\ error => code = AbnormalClosure
          /\ client' = [onclose(IF error THEN onerror(client, id) ELSE client, id, code)
                           EXCEPT !.op = Callback(IF error THEN "onerror" ELSE "onclose",
                                                  id, code)]
    /\ UNCHANGED <<gameVars, node, heap, server, wire>>

\* the close event of a socket that close() was called on
SocketClosed ==
    /\ roomFor(client)
    /\ \E id \in SocketIds :
          /\ client.sockets[id].readyState = "closing"
          /\ client' = [onclose(client, id, client.sockets[id].code)
                           EXCEPT !.op = Callback("onclose", id, client.sockets[id].code)]
    /\ UNCHANGED <<gameVars, node, heap, server, wire>>

\* the 15 s connectionTimeout of a socket
ConnectionTimeout ==
    /\ roomFor(client)
    /\ \E id \in SocketIds :
          /\ client.sockets[id].timeout
          /\ client' = [connectionTimeout(client, id)
                           EXCEPT !.op = Callback("connectionTimeout", id, 0)]
    /\ UNCHANGED <<gameVars, node, heap, server, wire>>

\* the setTimeout of handleReconnection fires
ReconnectTimer ==
    /\ freeSockets(client) # {}
    /\ \E k \in due(client) :
          client' = [connect([client EXCEPT !.timers = dropAt(@, k), !.fired = @ + 1])
                        EXCEPT !.op = Callback("reconnect", 0, 0)]
    /\ UNCHANGED <<gameVars, node, heap, server, wire>>

\* destroy of the lobby: onlineManager.disconnect(), the manager is dropped
Destroy ==
    /\ ~client.destroyed
    /\ client' = [disconnect(client) EXCEPT !.destroyed = TRUE,
                                            !.op = Callback("disconnect", 0, 0)]
    /\ UNCHANGED <<gameVars, node, heap, server, wire>>

ClientNext ==
    \/ ConnectToServer
    \/ SocketOpen
    \/ SocketFail
    \/ SocketLost
    \/ SocketClosed
    \/ ConnectionTimeout
    \/ ReconnectTimer
    \/ Destroy

ClientSpec == ClientInit /\ [][ClientNext]_vars

(***************************************************************************)
(* The messages between one browser and the room server.  A message is the *)
(* object one side writes; the other side reads the fields it names, and a *)
(* field that is not there reads as undefined.                              *)
(***************************************************************************)

\* messages on their way, both directions together
MaxInFlight == 2

\* the connection of the browser; no room code (null and undefined are both falsy)
Browser == CHOOSE ws \in Conns : \A other \in Conns : ws <= other
NoCode == 0

\* const { type, data } = JSON.parse(message), and data.roomId of the browser
has(m, name) == name \in DOMAIN m
roomIdOf(m) == IF has(m, "roomId") THEN m.roomId ELSE NoCode

\* the catch of the dispatcher, and its default case
InvalidFormat == "Invalid message format"
UnknownType == "Unknown message type"

\* handleChatMessage reads data.message once the sender is known to be in a room
handleChatMessage(s, ws, m) ==
    LET player == s.players[ws]
    IN IF player = NoPlayer THEN [s EXCEPT !.reply = Reply("error", "Player not in room")]
       ELSE IF ~has(m, "data") THEN [s EXCEPT !.reply = Reply("error", InvalidFormat)]
       ELSE [s EXCEPT !.reply = [Reply("chatMessage", "")
                                    EXCEPT !.to = broadcastToRoom(s, player.roomCode, ws)]]

\* the switch of ws.on('message'): handleCreateRoom and handleJoinRoom destructure
\* data, which throws when the message has no data; roomCode is the code
\* generateRoomCode draws
dispatch(s, ws, m, roomCode) ==
    CASE m.type = "ping" -> [s EXCEPT !.reply = Reply("pong", "")]
      [] m.type = "createRoom" ->
            IF ~has(m, "data") THEN [s EXCEPT !.reply = Reply("error", InvalidFormat)]
            ELSE handleCreateRoom(s, ws, roomCode)
      [] m.type = "joinRoom" ->
            IF ~has(m, "data") THEN [s EXCEPT !.reply = Reply("error", InvalidFormat)]
            ELSE IF ~has(m.data, "roomCode") THEN [s EXCEPT !.reply = Reply("error", "Room not found")]
            ELSE handleJoinRoom(s, ws, m.data.roomCode)
      [] m.type = "leaveRoom" -> handleLeaveRoom(s, ws)
      [] m.type = "move" -> handleMoveMessage(s, ws)
      [] m.type = "chatMessage" -> handleChatMessage(s, ws, m)
      [] m.type = "startGame" -> handleStartGame(s, ws)
      [] OTHER -> [s EXCEPT !.reply = Reply("error", UnknownType)]

\* sendMessage of the server: { type, data, timestamp }
ServerMessage(s, ws) ==
    [type |-> s.reply.type,
     data |-> IF s.reply.type \in {"roomCreated", "roomJoined"}
              THEN [roomCode |-> s.players[ws].roomCode,
                    playerColor |-> s.players[ws].color,
                    isHost |-> s.players[ws].isHost]
              ELSE [message |-> s.reply.message]]

\* the room fields of the online manager and the event it emitted last
OnlineManager ==
    [roomId |-> NoCode, isHost |-> FALSE, playerColor |-> "none", emitted |-> "none"]

\* handleMessage of the online manager
handleMessage(c, m) ==
    CASE m.type = "roomCreated" ->
            [c EXCEPT !.roomId = roomIdOf(m), !.isHost = TRUE, !.playerColor = "white",
                      !.emitted = "roomCreated"]
      [] m.type = "roomJoined" ->
            [c EXCEPT !.roomId = roomIdOf(m), !.isHost = FALSE, !.playerColor = "black",
                      !.emitted = "roomJoined"]
      [] m.type \in {"connected", "opponentJoined", "opponentLeft", "moveReceived",
                     "gameStateSync", "chatMessage", "gameEnd", "error"} ->
            [c EXCEPT !.emitted = IF m.type = "connected" THEN "serverConnected" ELSE m.type]
      [] OTHER -> [c EXCEPT !.emitted = "none"]

\* the messages the online manager writes (a timestamp goes with each)
clientMessage(name, roomId) ==
    CASE name = "createRoom" ->
            [type |-> "createRoom", roomId |-> roomId, playerId |-> Browser,
             playerName |-> "Player"]
      [] name = "joinRoom" ->
            [type |-> "joinRoom", roomId |-> roomId, playerId |-> Browser,
             playerName |-> "Player"]
      [] name = "leaveRoom" -> [type |-> "leaveRoom", roomId |-> roomId, playerId |-> Browser]
      [] name = "sendMove" ->
            [type |-> "move", roomId |-> roomId, playerId |-> Browser, move |-> "e2e4"]
      [] name = "sendChatMessage" ->
            [type |-> "chat", roomId |-> roomId, playerId |-> Browser,
             playerName |-> "Player", message |-> "hello"]
      [] name = "ping" -> [type |-> "ping", playerId |-> Browser]

\* the method of the online manager called last, with what it returned, and the
\* request the server handled last, with its answer
Call(name, sent) == [name |-> name, sent |-> sent]
Served(type, reply, message) == [type |-> type, reply |-> reply, message |-> message]

\* the browser is connected to the server, the welcome has been read
WireInit ==
    /\ GameAtRest
    /\ client = NoClient
    /\ server = [rooms |-> [code \in Codes |-> NoRoom],
                 players |-> [ws \in Conns |-> NoPlayer],
                 open |-> {Browser}, closed |-> {},
                 request |-> Request("connection", Browser, 0),
                 reply |-> Reply("connected", "")]
    /\ wire = [manager |-> OnlineManager, up |-> <<>>, down |-> <<>>,
               call |-> Call("connect", TRUE),
               served |-> Served("none", "none", ""), handled |-> "connected"]

roomOnWire == Len(wire.up) + Len(wire.down) < MaxInFlight

\* sendMessage of the online manager: the socket is open, the message goes out
sent(name, m, manager) ==
    [wire EXCEPT !.up = Append(@, m), !.call = Call(name, TRUE), !.manager = manager]

\* a method that returns false before it sends
returned(name) == [wire EXCEPT !.call = Call(name, FALSE)]

\* createRoom(playerName), with the room id generateRoomId draws
WireCreateRoom ==
    /\ roomOnWire
    /\ \E roomId \in Codes :
          wire' = sent("createRoom", clientMessage("createRoom", roomId), wire.manager)
    /\ UNCHANGED <<gameVars, node, heap, server, client>>

\* joinRoom(roomId, playerName)
WireJoinRoom ==
    /\ roomOnWire
    /\ \E roomId \in Codes :
          wire' = sent("joinRoom", clientMessage("joinRoom", roomId), wire.manager)
    /\ UNCHANGED <<gameVars, node, heap, server, client>>

\* leaveRoom()
WireLeaveRoom ==
    /\ roomOnWire
    /\ wire' = IF wire.manager.roomId = NoCode THEN returned("leaveRoom")
               ELSE sent("leaveRoom", clientMessage("leaveRoom", wire.manager.roomId),
                         [wire.manager EXCEPT !.roomId = NoCode, !.playerColor = "none",
                                              !.isHost = FALSE])
    /\ UNCHANGED <<gameVars, node, heap, server, client>>

\* sendMove(moveData)
WireSendMove ==
    /\ roomOnWire
    /\ wire' = IF wire.manager.roomId = NoCode THEN returned("sendMove")
               ELSE sent("sendMove", clientMessage("sendMove", wire.manager.roomId), wire.manager)
    /\ UNCHANGED <<gameVars, node, heap, server, client>>

\* sendChatMessage(message)
WireSendChat ==
    /\ roomOnWire
    /\ wire' = IF wire.manager.roomId = NoCode THEN returned("sendChatMessage")
               ELSE sent("sendChatMessage", clientMessage("sendChatMessage", wire.manager.roomId), wire.manager)
    /\ UNCHANGED <<gameVars, node, heap, server, client>>

\* the heartbeat interval
WirePing ==
    /\ roomOnWire
    /\ wire' = sent("ping", clientMessage("ping", NoCode), wire.manager)
    /\ UNCHANGED <<gameVars, node, heap, server, client>>

\* ws.on('message') of the server takes the next message of the browser
Serve ==
    /\ Len(wire.up) > 0
    /\ \E roomCode \in Codes :
         \E s \in {dispatch(server, Browser, Head(wire.up), roomCode)} :
          /\ server' = [s EXCEPT !.request = Request(Head(wire.up).type, Browser, 0)]
          /\ wire' = [wire EXCEPT
                         !.up = Tail(@),
                         !.down = IF s.reply = NoReply THEN @
                                  ELSE Append(@, ServerMessage(s, Browser)),
                         !.served = Served(Head(wire.up).type, s.reply.type, s.reply.message)]
    /\ UNCHANGED <<gameVars, node, heap, client>>

\* socket.onmessage of the browser takes the next message of the server
Receive ==
    /\ Len(wire.down) > 0
    /\ wire' = [wire EXCEPT !.down = Tail(@),
                            !.manager = handleMessage(@, Head(wire.down)),
                            !.handled = Head(wire.down).type]
    /\ UNCHANGED <<gameVars, node, heap, server, client>>

WireNext ==
    \/ WireCreateRoom
    \/ WireJoinRoom
    \/ WireLeaveRoom
    \/ WireSendMove
    \/ WireSendChat
    \/ WirePing
    \/ Serve
    \/ Receive

WireSpec == WireInit /\ [][WireNext]_vars


(***************************************************************************)
(* Properties                                                               *)
(***************************************************************************)

sign(n) == IF n > 0 THEN 1 ELSE IF n < 0 THEN -1 ELSE 0

\* the squares strictly between two squares of one rank, file or diagonal are empty
clearBetween(b, s, t) ==
    LET n == IF absDiff(s[1], t[1]) > absDiff(s[2], t[2])
             THEN absDiff(s[1], t[1]) ELSE absDiff(s[2], t[2])
    IN \A k \in 1..(n - 1) :
          b[s[1] + k * sign(t[1] - s[1])][s[2] + k * sign(t[2] - s[2])] = Null

\* the piece on square s attacks square t, by the rules of chess
attacks(b, s, t) ==
    LET piece == b[s[1]][s[2]]
        dr == absDiff(s[1], t[1])
        dc == absDiff(s[2], t[2])
        straight == (dr = 0 \/ dc = 0) /\ dr + dc > 0
        diagonal == dr = dc /\ dr > 0
    IN CASE piece.type = "pawn" ->
              t[1] - s[1] = (IF piece.color = "white" THEN -1 ELSE 1) /\ dc = 1
         [] piece.type = "knight" -> (dr = 1 /\ dc = 2) \/ (dr = 2 /\ dc = 1)
         [] piece.type = "king" -> dr <= 1 /\ dc <= 1 /\ dr + dc > 0
         [] piece.type = "rook" -> straight /\ clearBetween(b, s, t)
         [] piece.type = "bishop" -> diagonal /\ clearBetween(b, s, t)
         [] piece.type = "queen" -> (straight \/ diagonal) /\ clearBetween(b, s, t)
         [] OTHER -> FALSE

\* a king of the color stands on a square an enemy piece attacks
kingAttacked(b, color) ==
    \E k \in Squares :
        /\ b[k[1]][k[2]].type = "king"
        /\ b[k[1]][k[2]].color = color
        /\ \E s \in Squares :
              /\ b[s[1]][s[2]] # Null
              /\ b[s[1]][s[2]].color # color
              /\ attacks(b, s, k)

\* the board once ChessBoard.makeMove has applied a move (the rook included)
boardAfter(b, s, t) ==
    IF isCastling(b, s[1], s[2], t[1], t[2])
    THEN castledBoard(b, s[1], s[2], t[1], t[2])
    ELSE movedBoard(b, s[1], s[2], t[1], t[2])

\* the last step set up the board or the side to move of this state (every
\* position of a game is first seen in such a state)
positionChanged ==
    \/ ev.op \in {"init", "newgame", "promotion"}
    \/ ev.op \in {"move", "dispatch", "undo"} /\ ev.result = "none"

\* C1: in every position a game reaches, for every piece of the side to move
\* and every square of the board, a destination that isValidMove accepts
\* leads, once the move is applied as makeMove applies it (castling moves the
\* rook too), to a board on which the mover's king is not attacked.
C1_AcceptedMoveKeepsKingSafe ==
    positionChanged =>
        \A s \in Squares :
            (board[s[1]][s[2]] # Null /\ board[s[1]][s[2]].color = currentPlayer) =>
                \A t \in Squares :
                    isValidMove(board[s[1]][s[2]], t[1], t[2], board) =>
                        ~kingAttacked(boardAfter(board, s, t), currentPlayer)

\* an accepted castling move has just been applied and the king is not attacked
C1_Witness ==
    /\ ev.op = "move"
    /\ ev.result = "none"
    /\ lastMove.castling # NoCastling
    /\ board[lastMove.to[1]][lastMove.to[2]].type = "king"
    /\ ~kingAttacked(board, ev.color)

kingsOf(b, color) ==
    { s \in Squares : b[s[1]][s[2]].type = "king" /\ b[s[1]][s[2]].color = color }

\* C2: in every reachable state the board holds exactly one king of each
\* color (a king is never captured); a square holds at most one piece, which
\* the board being a function of the squares already says.
C2_OneKingEach ==
    /\ Cardinality(kingsOf(board, "white")) = 1
    /\ Cardinality(kingsOf(board, "black")) = 1

Terminal == {"checkmate", "stalemate", "draw"}

\* C3: a move attempt that is refused leaves the board (the pieces' hasMoved
\* and moveCount with it), the side to move, the history, the captured lists
\* and the status as they were; and an attempt is refused when no piece stands
\* on the source square, when the destination is not legal, when the status is
\* terminal and, for the human, when the piece is not of the side to move or
\* is of the bot's color.
C3_RefusedMoveChangesNothing ==
    [][ev'.op = "move" =>
          /\ ev'.result # "none" =>
                UNCHANGED <<board, currentPlayer, moveHistory, capturedPieces, gameState>>
          /\ ( \/ board[ev'.from[1]][ev'.from[2]] = Null
               \/ ~isValidMove(board[ev'.from[1]][ev'.from[2]], ev'.to[1], ev'.to[2], board)
               \/ ~isOpen(gameState)
               \/ ~ev'.ai /\ ev'.color # currentPlayer
               \/ ~ev'.ai /\ hasAI /\ ev'.color = aiColor ) => ev'.result # "none"
       ]_vars

\* the pinned pawn's move has just been refused for exposing its king
C3_Witness ==
    /\ ev.op = "move"
    /\ ev.result = "invalid"
    /\ board[ev.from[1]][ev.from[2]].type = "pawn"
    /\ ev.to \in getValidMoves(board[ev.from[1]][ev.from[2]], board)

\* C4: every move that is applied, the human's or the bot's, moves a piece
\* whose color is the side to move at the moment it is applied.
C4_MoverIsSideToMove ==
    (ev.op = "move" /\ ev.result = "none") => ev.color = ev.player

captures(history, color) ==
    Cardinality({ i \in 1..Len(history) :
                    history[i].capturedPiece # Null /\ history[i].capturedPiece.color = color })

finalizing == \E i \in 1..Len(pending) : pending[i].kind \in {"dispatch", "promotion"}

\* C5: each accepted move is finalized exactly once: the history holds the
\* accepted moves in play order and none twice; with no undo and no new game
\* so far and no finalization outstanding it holds every accepted move; and
\* each capture it records is in the captured list once.
C5_FinalizedExactlyOnce ==
    /\ \A i, j \in 1..Len(moveHistory) : i < j => moveHistory[i].id < moveHistory[j].id
    /\ (undos = 0 /\ games = 0 /\ ~finalizing) =>
          { moveHistory[i].id : i \in 1..Len(moveHistory) } = 1..moveSeq
    /\ \A color \in {"white", "black"} :
          Len(capturedPieces[color]) = captures(moveHistory, color)

\* C6: the players alternate starting with white: the entry at 0-based index
\* i of the history is white's exactly when i is even, and the side to move is
\* white exactly when the history's length is even.
C6_PlayersAlternate ==
    /\ \A i \in 1..Len(moveHistory) : (moveHistory[i].player = "white") <=> (i % 2 = 1)
    /\ (currentPlayer = "white") <=> (Len(moveHistory) % 2 = 0)

\* the status the position calls for, for the side to move
statusOf(b, color) ==
    IF isKingInCheck(b, color)
    THEN IF hasValidMove(b, color) THEN "check" ELSE "checkmate"
    ELSE IF ~hasValidMove(b, color) THEN "stalemate"
         ELSE IF isInsufficientMaterial(b) THEN "draw"
         ELSE "playing"

\* C7: after every move that the game records, the status is the one the
\* position calls for: checkmate or check when the side to move is in check
\* without or with a legal move, stalemate when it is not in check and has no
\* legal move, otherwise draw when the material is insufficient, otherwise
\* playing.
C7_StatusRecomputed ==
    ev.handled => gameState = statusOf(board, currentPlayer)

\* C8: the status is one of playing, check, checkmate, stalemate and draw, and
\* a game the material rule has ended has status draw.
C8_StatusInRange ==
    /\ gameState \in {"playing", "check", "checkmate", "stalemate", "draw"}
    /\ (ev.handled /\ ~isOpen(gameState) /\ gameState \notin {"checkmate", "stalemate"})
          => gameState = "draw"

\* C9: checkmate, stalemate and draw are absorbing: from a state with one of
\* them no operation other than a new game, neither a move attempt nor an
\* undo, changes the status, the board or the side to move.
C9_TerminalIsAbsorbing ==
    [][(gameState \in Terminal /\ ev'.op # "newgame") =>
          UNCHANGED <<gameState, board, currentPlayer>>]_vars

\* C10: check does not end the game: while the status is check every legal
\* move of the side to move is accepted when that side attempts it, and in a
\* game against the bot, when a recorded move leaves the bot in check, the bot
\* has been asked for a move: its search is in progress.
C10_CheckIsNotTerminal ==
    gameState = "check" =>
        LET byAI == hasAI /\ currentPlayer = aiColor
        IN /\ \A m \in getAllValidMoves(board, currentPlayer) :
                 rejection(Game, m[1][1], m[1][2], m[2][1], m[2][2], byAI) = "none"
           /\ (ev.handled /\ byAI) =>
                 thinking /\ \E i \in 1..Len(pending) : pending[i].kind = "think"

\* the bot, asked for a move while in check, has answered the check with a
\* move that was accepted and recorded
C10_Witness ==
    /\ ev.op = "move"
    /\ ev.ai
    /\ ev.status = "check"
    /\ ev.player = aiColor
    /\ ev.result = "none"
    /\ ev.handled


\* the last entry of the history is the latest accepted move, recorded once
lastIsLatest ==
    /\ Len(moveHistory) > 0
    /\ moveHistory[Len(moveHistory)].id = prior.id
    /\ \A i \in 1..(Len(moveHistory) - 1) : moveHistory[i].id # prior.id
    /\ ~finalizing

\* C11: undoing the latest accepted move restores exactly the position it was
\* made in: every piece's type and square, every piece's hasMoved flag and
\* moveCount, both captured lists and the side to move.
C11_UndoRestoresPosition ==
    [][(lastIsLatest /\ ev'.op = "undo") =>
          /\ board' = prior.board
          /\ capturedPieces' = prior.capturedPieces
          /\ currentPlayer' = prior.currentPlayer]_vars



\* a piece of the color has a destination that isValidMove accepts
legalMoveExists(b, color) ==
    \E s \in Squares :
        /\ b[s[1]][s[2]] # Null
        /\ b[s[1]][s[2]].color = color
        /\ \E t \in Squares : isValidMove(b[s[1]][s[2]], t[1], t[2], b)

\* C12: in every position a game reaches and for both colors, isCheckmate
\* holds exactly when the color's king is attacked and the color has no legal
\* move, isStalemate holds exactly when the king is not attacked and the color
\* has no legal move, and the two never hold together.
C12_MateAndStalemate ==
    positionChanged =>
        \A color \in {"white", "black"} :
            LET stuck == ~legalMoveExists(board, color)
                inCheck == kingAttacked(board, color)
            IN /\ isCheckmate(board, color) <=> (inCheck /\ stuck)
               /\ isStalemate(board, color) <=> (~inCheck /\ stuck)
               /\ ~(isCheckmate(board, color) /\ isStalemate(board, color))

\* the side to move is stalemated: not attacked and without a legal move
C12_Witness ==
    /\ isStalemate(board, currentPlayer)
    /\ ~kingAttacked(board, currentPlayer)
    /\ ~isCheckmate(board, currentPlayer)
    /\ Cardinality(kingsOf(board, currentPlayer)) = 1

backRank(color) == IF color = "white" THEN 7 ELSE 0

\* the board with the king of square s standing on column c of its row instead
kingAlone(b, s, c) ==
    [b EXCEPT ![s[1]] = [@ EXCEPT ![s[2]] = Null, ![c] = b[s[1]][s[2]]]]

\* the conditions of castling for the king on square s going to column toCol
castlingAllowed(b, s, toCol) ==
    LET king == b[s[1]][s[2]]
        rook == b[s[1]][IF toCol = 6 THEN 7 ELSE 0]
        between == IF toCol = 6 THEN {5, 6} ELSE {1, 2, 3}
        crossed == IF toCol = 6 THEN {5, 6} ELSE {3, 2}
    IN /\ s = <<backRank(king.color), 4>>
       /\ toCol \in {2, 6}
       /\ ~king.hasMoved
       /\ rook.type = "rook" /\ rook.color = king.color /\ ~rook.hasMoved
       /\ \A c \in between : b[s[1]][c] = Null
       /\ ~kingAttacked(b, king.color)
       /\ \A c \in crossed : ~kingAttacked(kingAlone(b, s, c), king.color)

promoting == \E i \in 1..Len(pending) : pending[i].kind = "promotion"

\* a move attempt of this step that was accepted and takes a pawn to the last rank
promotes(e, b) ==
    /\ e.op = "move"
    /\ e.result = "none"
    /\ isPawnPromotion(b, e.from[1], e.from[2], e.to[1], e.to[2])

\* C14: a human pawn move to the last rank is not finalized when it is
\* accepted; while the promotion dialog is open the side to move does not
\* change and the history does not grow; the choice puts a piece of the chosen
\* type and the pawn's color on the pawn's square, records that move with its
\* promotion, passes the turn and recomputes the status. A promoting move of
\* the bot puts a queen on the square at once.
C14_PromotionFinalization ==
    [][/\ (promotes(ev', board) /\ ~ev'.ai) =>
             /\ promoting'
             /\ moveHistory' = moveHistory
             /\ currentPlayer' = currentPlayer
       /\ (promoting /\ ev'.op # "promotion") =>
             /\ moveHistory' = moveHistory
             /\ currentPlayer' = currentPlayer
       /\ ev'.op = "promotion" =>
             /\ board'[ev'.to[1]][ev'.to[2]].type = ev'.choice
             /\ board'[ev'.to[1]][ev'.to[2]].color = ev'.color
             /\ Len(moveHistory') = Len(moveHistory) + 1
             /\ LET last == moveHistory'[Len(moveHistory')]
                IN Len(moveHistory') > 0 =>
                      /\ last.to = ev'.to
                      /\ last.promotion = ev'.choice
                      /\ last.piece = board'[ev'.to[1]][ev'.to[2]]
             /\ currentPlayer' = getOppositeColor(ev'.color)
             /\ gameState' = checkGameState([Game EXCEPT !.board = board',
                                               !.currentPlayer = currentPlayer']).gameState
       /\ (promotes(ev', board) /\ ev'.ai) =>
             /\ board'[ev'.to[1]][ev'.to[2]].type = "queen"
             /\ board'[ev'.to[1]][ev'.to[2]].color = ev'.color
             /\ lastMove'.promotion = "queen"
      ]_vars



\* C15: whatever the difficulty, the latest return of getBestMove is either a
\* move of the legal moves of the bot's color on the board the call was given,
\* or null, and null only when the bot's color has no legal move on that board.
C15_BestMoveLegalOrNull ==
    aiCall.how # "none" =>
        LET legal == getAllValidMoves(aiCall.given, aiColor)
        IN IF aiCall.move = NoSquare THEN legal = {} ELSE aiCall.move \in legal



\* a turn of the bot is in flight: its search or its chosen move is pending
inFlight == \E i \in 1..Len(pending) : pending[i].kind \in {"think", "apply"}

\* C16: while a turn of the bot is in flight, every move attempt of the human
\* and every undo request leaves the board, the side to move, the status, the
\* history and the captured lists unchanged.
C16_NothingInterleaves ==
    [][(inFlight /\ (ev'.op = "undo" \/ (ev'.op = "move" /\ ~ev'.ai))) =>
          UNCHANGED <<board, currentPlayer, gameState, moveHistory, capturedPieces>>]_vars

\* C17: a new game starts with white to move on the initial position and an
\* empty history, and no move of the bot whose search was started in an
\* earlier game is applied to the board of a later one.
C17_NewGameDiscardsBotMove ==
    /\ ev.op = "newgame" =>
          /\ board = createInitialBoard
          /\ currentPlayer = "white"
          /\ moveHistory = <<>>
    /\ (ev.op = "move" /\ ev.ai /\ ev.result = "none") => ev.game = games

searching == gameMode \in {"medium", "hard"} /\ aiCall.how \notin {"none", "busy"}

\* C18: no exception of the search gets out of getBestMove: at medium and hard
\* a call that reaches the search returns the search's move or, when the
\* search threw, what the random policy returns: a legal move of the bot's
\* color on the board given, or null when there is none.
C18_SearchFailureFallsBack ==
    searching =>
        /\ aiCall.how \in {"search", "fallback"}
        /\ aiCall.how = "fallback" =>
              LET legal == getAllValidMoves(aiCall.given, aiColor)
              IN IF legal = {} THEN aiCall.move = NoSquare ELSE aiCall.move \in legal

\* at medium or hard the search threw and getBestMove returned a legal move
C18_Witness ==
    /\ searching
    /\ aiCall.how = "fallback"
    /\ aiCall.move \in getAllValidMoves(aiCall.given, aiColor)
    /\ ev.op = "think"

\* C19: at medium and hard the move getBestMove returns is the result of the
\* minimax search run to completion at the configured depth.
C19_SearchRunsToDepth ==
    searching =>
        /\ aiCall.how = "search"
        /\ LET result == minimax(aiCall.given, getMaxDepth, 0 - Infinity, Infinity, TRUE, FALSE)
           IN ~result.threw /\ aiCall.move = result.move



\* the node is one the claim speaks of: the call has run at a depth above 0
\* and the player on the move has no legal move
deadEnd ==
    /\ node.visited
    /\ node.depth > 0
    /\ ~legalMoveExists(node.board, playerOf(node))

RootDeadEndScore ==
    (deadEnd /\ ~node.plain) =>
        /\ ~node.result.threw
        /\ node.result.score = IF kingAttacked(node.board, aiColor) THEN 0 - 10000 ELSE 0

RootMated == deadEnd /\ ~node.plain /\ kingAttacked(node.board, aiColor)

RootStalemated == deadEnd /\ ~node.plain /\ ~kingAttacked(node.board, aiColor)



\* 1.e4 e5 2.Bc4 Nc6 3.Qh5 Nf6 4.Qxf7
ScholarMoves ==
    << <<6, 4, 4, 4>>, <<1, 4, 3, 4>>, <<7, 5, 4, 2>>, <<0, 1, 2, 2>>, <<7, 3, 3, 7>>,
       <<0, 6, 2, 5>>, <<3, 7, 1, 5>> >>

\* the game of two players at one board in which these moves are tried, with
\* no undo and no new game
scholarGame == script = "scholar" /\ gameMode = "local" /\ undos = 0 /\ games = 0

\* the moves recorded so far are the first moves of scholar's mate
scholarLine ==
    \A k \in 1..Len(moveHistory) :
        /\ k <= 7
        /\ moveHistory[k].from = <<ScholarMoves[k][1], ScholarMoves[k][2]>>
        /\ moveHistory[k].to = <<ScholarMoves[k][3], ScholarMoves[k][4]>>

\* C21: played from the initial position, the seven moves of scholar's mate
\* are accepted one after the other, white and black in turn, and after the
\* seventh the status is checkmate, black is in check and the black king has
\* no legal move.
C21_ScholarsMate ==
    (scholarGame /\ scholarLine) =>
        /\ \A k \in 1..Len(moveHistory) :
              moveHistory[k].player = IF k % 2 = 1 THEN "white" ELSE "black"
        /\ (ev.op = "move" /\ ev.result # "none" /\ Len(moveHistory) < 7) =>
              <<ev.from[1], ev.from[2], ev.to[1], ev.to[2]>> # ScholarMoves[Len(moveHistory) + 1]
        /\ Len(moveHistory) = 7 =>
              /\ gameState = "checkmate"
              /\ kingAttacked(board, "black")
              /\ \A k \in kingsOf(board, "black"), t \in Squares :
                    ~isValidMove(board[k[1]][k[2]], t[1], t[2], board)

\* the seventh move has just been recorded
C21_Witness ==
    /\ scholarGame
    /\ scholarLine
    /\ Len(moveHistory) = 7
    /\ ev.op = "move" /\ ev.handled
    /\ ev.to = <<1, 5>>



\* the moves isValidMove accepts for the pieces of a color and of a type
legalMovesOf(b, color, type) ==
    { m \in Squares \X Squares :
        /\ b[m[1][1]][m[1][2]].color = color
        /\ b[m[1][1]][m[1][2]].type = type
        /\ isValidMove(b[m[1][1]][m[1][2]], m[2][1], m[2][2], b) }

PieceTypes == {"pawn", "rook", "knight", "bishop", "queen", "king"}

\* C22: in the initial position, the one a game and a new game start from,
\* white has exactly 20 legal moves, 16 of pawns and 4 of knights, and so has
\* black.
C22_TwentyOpeningMoves ==
    moveSeq = 0 =>
        /\ board = createInitialBoard
        /\ \A color \in {"white", "black"} :
              /\ Cardinality(legalMovesOf(board, color, "pawn")) = 16
              /\ Cardinality(legalMovesOf(board, color, "knight")) = 4
              /\ \A type \in PieceTypes \ {"pawn", "knight"} :
                    legalMovesOf(board, color, type) = {}

\* a game has just been started anew: the initial position again
C22_Witness ==
    /\ moveSeq = 0
    /\ ev.op = "newgame"
    /\ Cardinality(UNION { legalMovesOf(board, "white", type) : type \in PieceTypes }) = 20



\* the latest recorded move is a pawn's advance of two squares
doubleAdvance ==
    /\ ev.op = "move" /\ ev.handled
    /\ lastMove # NoMove
    /\ lastMove.piece.type = "pawn"
    /\ lastMove.from[2] = lastMove.to[2]
    /\ lastMove.from[1] - lastMove.to[1] \in {2, 0 - 2}

\* the pawns of the other color standing beside the pawn that has just advanced
besidePawns ==
    { s \in Squares :
        /\ s[1] = lastMove.to[1]
        /\ s[2] - lastMove.to[2] \in {1, 0 - 1}
        /\ board[s[1]][s[2]].type = "pawn"
        /\ board[s[1]][s[2]].color # lastMove.piece.color }

\* the square the pawn that has just advanced passed over
passedSquare == <<(lastMove.from[1] + lastMove.to[1]) \div 2, lastMove.to[2]>>

\* C26: right after a pawn's advance of two squares that lands beside a pawn
\* of the other color, that pawn may capture it en passant: its move onto the
\* square passed over is legal (when it does not leave its own king in check
\* it is never refused).
C26_EnPassantOffered ==
    (doubleAdvance /\ isOpen(gameState)) =>
        \A s \in besidePawns :
            \/ isValidMove(board[s[1]][s[2]], passedSquare[1], passedSquare[2], board)
            \/ kingAttacked(movedBoard(
                   [board EXCEPT ![lastMove.to[1]][lastMove.to[2]] = Null],
                   s[1], s[2], passedSquare[1], passedSquare[2]),
                 board[s[1]][s[2]].color)



\* the letters a piece may be written with (the knight's is N; the first
\* letter of its name, which is the king's, is let through here)
lettersOf(type) ==
    CASE type = "rook" -> {"R"}
      [] type = "knight" -> {"N", "K"}
      [] type = "bishop" -> {"B"}
      [] type = "queen" -> {"Q"}
      [] type = "king" -> {"K"}
      [] OTHER -> {}

squareName(s) ==
    << <<"a", "b", "c", "d", "e", "f", "g", "h">>[s[2] + 1],
       <<"8", "7", "6", "5", "4", "3", "2", "1">>[s[1] + 1] >>

\* the notations the rule allows for a recorded move h
notationsFor(h) ==
    LET promoted == h.promotion # "none"
        mover == IF promoted THEN "pawn" ELSE h.piece.type
        capture == h.capturedPiece # Null
        tail == (IF capture THEN <<"x">> ELSE <<>>) \o squareName(h.to)
        stem == IF mover = "pawn"
                THEN { (IF capture THEN <<squareName(h.from)[1]>> ELSE <<>>) \o tail }
                ELSE { <<l>> \o tail : l \in lettersOf(mover) }
    IN IF h.castling # NoCastling
       THEN { IF h.to[2] = 6 THEN <<"O", "-", "O">> ELSE <<"O", "-", "O", "-", "O">> }
       ELSE IF promoted
       THEN { n \o <<"=", l>> : n \in stem, l \in lettersOf(h.promotion) \ {"K"} }
       ELSE stem

\* C24: the notation recorded for a move is O-O or O-O-O for castling, else
\* the piece letter (none for a pawn, also one that promotes), 'x' for a
\* capture (after the source file for a pawn), the destination square, and
\* '=' with the promotion piece's letter when the move promotes.
C24_Notation ==
    (ev.handled /\ Len(moveHistory) > 0) =>
        moveHistory[Len(moveHistory)].notation \in notationsFor(moveHistory[Len(moveHistory)])



\* C25: the legality queries and the search's move maker write to copies:
\* whatever they are asked, the live board array holds the same piece objects
\* on the same squares, and row, col, hasMoved and moveCount of every live
\* piece are what they were.
C25_QueriesLeaveLiveBoard ==
    Len(heap.boards) > 0 =>
        \E live \in {liveHeap(board)} :
            /\ heap.boards[1] = live.boards[1]
            /\ \A p \in 1..Len(live.pieces) : heap.pieces[p] = live.pieces[p]
            /\ deref(heap, 1) = board

\* the search has made a move on a copy of the board state it was given,
\* itself a copy of the live board
C25_Witness ==
    /\ Len(heap.boards) = 3
    /\ heap.snapshot = 2
    /\ deref(heap, 3) # board
    /\ deref(heap, 2) = board



\* the rooms the server has
roomsOpen == { code \in Codes : server.rooms[code].exists }

entries(code) == server.rooms[code].players

\* C27: a room holding two players has exactly one white host and exactly one
\* black guest, on two distinct connections.
C27_OneHostOneGuest ==
    \A code \in roomsOpen :
        Len(entries(code)) = 2 =>
            /\ entries(code)[1].ws # entries(code)[2].ws
            /\ \E i \in 1..2 :
                  /\ entries(code)[i].isHost /\ entries(code)[i].color = "white"
                  /\ ~entries(code)[3 - i].isHost /\ entries(code)[3 - i].color = "black"

\* C28: a room is on the server only while it has a connected member: once
\* every connection that created or joined it has left it or closed, the room
\* is gone from the table.
C28_NoRoomWithoutMember ==
    \A code \in roomsOpen :
        \E i \in 1..Len(entries(code)) : entries(code)[i].ws \in server.open

\* the connection has the host's entry in the room
hostOf(s, ws, code) ==
    \E i \in 1..Len(s.rooms[code].players) :
        s.rooms[code].players[i].ws = ws /\ s.rooms[code].players[i].isHost

\* the rooms whose game the step started
startedBy(s, t) ==
    { code \in Codes : s.rooms[code].exists /\ t.rooms[code].exists
                       /\ ~s.rooms[code].gameStarted /\ t.rooms[code].gameStarted }

\* C29: a room's game is started only by a startGame request of that room's
\* host while the room holds two players and its game is not started; every
\* other startGame request is answered with an error and changes nothing.
C29_OnlyHostStarts ==
    [][/\ \A code \in startedBy(server, server') :
             /\ server'.request.type = "startGame"
             /\ hostOf(server, server'.request.ws, code)
             /\ Len(server.rooms[code].players) = 2
             /\ ~server.rooms[code].gameStarted
       /\ (server'.request.type = "startGame" /\ startedBy(server, server') = {}) =>
             /\ server'.reply.type = "error"
             /\ server'.rooms = server.rooms
             /\ server'.players = server.players]_vars

\* a host has just started the game of its room
C29_Witness ==
    /\ server.open # {}
    /\ server.request.type = "startGame"
    /\ server.reply.type = "gameStarted"
    /\ \E code \in roomsOpen : server.rooms[code].gameStarted



\* the step is the loss of the open connection of a manager in use, with a
\* close code other than 1000
connectionLost ==
    /\ client'.op.name \in {"onclose", "onerror"}
    /\ client'.op.code # NormalClosure
    /\ client.socket = client'.op.id
    /\ client.sockets[client.socket].readyState = "open"
    /\ ~client.destroyed

\* the step armed one reconnection timer
armed == Len(client'.timers) = Len(client.timers) + 1

gaveUp == "error: unable to reconnect"

\* C30: a connection lost with a close code other than 1000 arms one
\* reconnection; the reconnection armed when n reconnections in a row have been
\* attempted is attempt n+1 and comes after 1000*2^n ms; the client gives up
\* (reports that it is unable to reconnect) only when 5 reconnections in a row
\* have been attempted, and a connection that opens sets the counter of
\* attempts to 0.
C30_Reconnection ==
    [][/\ connectionLost => (armed \/ client'.emitted = gaveUp)
       /\ armed => client'.timers[Len(client'.timers)] = 1000 * 2 ^ client.fired
       /\ (client'.emitted = gaveUp /\ client.emitted # gaveUp) =>
             client.fired >= maxReconnectAttempts
       /\ client'.op.name = "onopen" => client'.reconnectAttempts = 0]_vars


\* the pieces on the board, by type and color
piecesOf(b, type, color) ==
    { s \in Squares : b[s[1]][s[2]] # Null /\ b[s[1]][s[2]].type = type
                                           /\ b[s[1]][s[2]].color = color }

\* nothing but the two kings, or the two kings and one bishop or one knight
bareKings(b) ==
    LET others == { s \in Squares : b[s[1]][s[2]] # Null /\ b[s[1]][s[2]].type # "king" }
    IN /\ Cardinality(piecesOf(b, "king", "white")) = 1
       /\ Cardinality(piecesOf(b, "king", "black")) = 1
       /\ Cardinality(others) <= 1
       /\ \A s \in others : b[s[1]][s[2]].type \in {"bishop", "knight"}

\* C23: the draw by insufficient material is declared exactly when the board
\* holds only the two kings, or the two kings and one bishop or one knight;
\* with any other material on the board no material draw is declared.
C23_MaterialDraw ==
    (gameState = "insufficient_material") <=> bareKings(board)

NonPawnTypes == {"king", "queen", "rook", "bishop", "knight"}

\* C38: the piece letter of a recorded move identifies the piece type: a move
\* of a king, queen, rook, bishop or knight is not written with the letter
\* that moves of another of these types are written with.
C38_LetterIdentifiesPiece ==
    \A k \in 1..Len(moveHistory) :
        (moveHistory[k].castling = NoCastling /\ moveHistory[k].piece.type \in NonPawnTypes) =>
            \A type \in NonPawnTypes \ {moveHistory[k].piece.type} :
                moveHistory[k].notation[1] # firstLetter(type)

\* C32: while a castling or a promotion waits to be finalized no move attempt
\* and no undo changes the game, and the finalization records the move that
\* started it: a castling for the delayed dispatch, the promoting move for
\* the promotion dialog.
C32_FinalizationWindow ==
    [][/\ (finalizing /\ ev'.op \in {"move", "undo"}) =>
             UNCHANGED <<board, currentPlayer, gameState, moveHistory, capturedPieces>>
       /\ (ev'.op = "dispatch" /\ Len(moveHistory') > 0) =>
             moveHistory'[Len(moveHistory')].castling # NoCastling
       /\ (ev'.op = "promotion" /\ Len(moveHistory') > 0) =>
             /\ moveHistory'[Len(moveHistory')].to = ev'.to
             /\ moveHistory'[Len(moveHistory')].promotion # "none"]_vars

onBoard(b) == { s \in Squares : b[s[1]][s[2]] # Null }

\* C35: material is conserved: whenever no move waits to be finalized, the
\* pieces on the board and the pieces in the two captured lists are 32
\* together, and each captured list holds pieces of its own color only.
C35_MaterialConserved ==
    /\ ~finalizing =>
          Cardinality(onBoard(board)) + Len(capturedPieces["white"])
             + Len(capturedPieces["black"]) = 32
    /\ \A color \in {"white", "black"} :
          \A i \in 1..Len(capturedPieces[color]) : capturedPieces[color][i].color = color

\* C34: in every state whose status is playing or check the status agrees
\* with the position: it is check exactly when the king of the side to move is
\* attacked.
C34_StatusAgreesWithPosition ==
    gameState \in {"playing", "check"} =>
        ((gameState = "check") <=> isKingInCheck(board, currentPlayer))

\* it is the bot's turn in a game that goes on
botToMove == hasAI /\ currentPlayer = aiColor /\ gameState \in {"playing", "check"}

\* the bot has just made a move
botMoved == ev.op = "move" /\ ev.ai /\ ev.result = "none"

C36_ClockOfSideToMove ==
    (clock.isTimerActive /\ gameState \in {"playing", "check"}) =>
        /\ clock.timerInterval
        /\ clock.counted \in {"none", currentPlayer}

\* the connections whose current room (their entry of the players map) is the room
membersOf(code) ==
    { ws \in server.open : server.players[ws] # NoPlayer /\ server.players[ws].roomCode = code }

\* C39: a move is relayed only when the sender's current room has started its game,
\* and it goes exactly to the other connections that are now members of that room:
\* not to the sender, not to a connection that is in another room by now.
C39_MoveRelay ==
    server.request.type = "move" =>
        LET ws == server.request.ws
            player == server.players[ws]
        IN IF server.reply.type = "moveReceived"
           THEN /\ player # NoPlayer
                /\ server.rooms[player.roomCode].exists
                /\ server.rooms[player.roomCode].gameStarted
                /\ server.reply.to = membersOf(player.roomCode) \ {ws}
           ELSE /\ server.reply.type = "error"
                /\ server.reply.to = {}

\* the requests the online manager sends
ClientRequests == {"createRoom", "joinRoom", "leaveRoom", "move", "chat", "ping"}

\* C31: the server's dispatcher accepts every request the browser sends, reading the
\* fields the browser wrote, and the browser reads from a reply the fields the
\* server wrote: once 'roomCreated' or 'roomJoined' is handled, the browser knows
\* the code of the room the server has it in.
C31_SameProtocol ==
    /\ wire.served.type \in ClientRequests =>
          ~(wire.served.reply = "error" /\ wire.served.message \in {InvalidFormat, UnknownType})
    /\ (wire.handled \in {"roomCreated", "roomJoined"} /\ wire.call.name \notin {"leaveRoom"}) =>
          /\ server.players[Browser] # NoPlayer
          /\ wire.manager.roomId = server.players[Browser].roomCode

\* the depths the two searches are compared at
MaxSearchDepth == 2

setMax(S) == LET x == CHOOSE x \in S : \A y \in S : y <= x IN x

setMin(S) == LET x == CHOOSE x \in S : \A y \in S : x <= y IN x

\* the reference: minimax without a window, over the same lists of moves, the same
\* scores of a side without a move and the same evaluation at depth 0
RECURSIVE exhaustive(_, _, _)
exhaustive(b, depth, isMaximizing) ==
    IF depth = 0 THEN evaluateBoard(b)
    ELSE LET player == IF isMaximizing THEN aiColor ELSE getOppositeColor(aiColor)
             moves == getAllValidMoves(b, player)
         IN IF moves = {}
            THEN IF isKingInCheck(b, player)
                 THEN (IF isMaximizing THEN 0 - MateScore ELSE MateScore)
                 ELSE 0
            ELSE LET scores == { exhaustive(aiMakeMove(b, move), depth - 1, ~isMaximizing) :
                                   move \in moves }
                 IN IF isMaximizing THEN setMax(scores) ELSE setMin(scores)

\* the call getBestMove makes, at a depth, on the board of the game
rootSearch(depth) == minimax(node.board, depth, 0 - Infinity, Infinity, TRUE, FALSE)

\* C37: on the board of a game and at every depth, the search with the full window
\* returns the score of exhaustive minimax to that depth, and when the bot has a
\* move the move it returns attains that score.
C37_AlphaBetaIsMinimax ==
    ~node.plain =>
        \A depth \in 1..MaxSearchDepth :
            /\ ~rootSearch(depth).threw
            /\ rootSearch(depth).score = exhaustive(node.board, depth, TRUE)
            /\ getAllValidMoves(node.board, aiColor) # {} =>
                  /\ rootSearch(depth).move # NoSquare
                  /\ exhaustive(aiMakeMove(node.board, rootSearch(depth).move), depth - 1, FALSE)
                        = rootSearch(depth).score

\* what does hold: at depth 1, where no simulated board is searched, the two agree
DepthOneIsMinimax ==
    ~node.plain =>
        /\ ~rootSearch(1).threw
        /\ rootSearch(1).score = exhaustive(node.board, 1, TRUE)
        /\ getAllValidMoves(node.board, aiColor) # {} =>
              exhaustive(aiMakeMove(node.board, rootSearch(1).move), 0, FALSE)
                 = rootSearch(1).score

============================================================================
